---- MODULE Spec2Model ----
(***************************************************************************)
(* Signal-computation and caching pipeline of the investment dashboard:    *)
(* DataStore (dashboard_app/data_store.py) with its price and analyst      *)
(* providers.                                                              *)
(*                                                                         *)
(* Conventions                                                             *)
(*  - An Optional value is a sequence: None is <<>>, a present value v is  *)
(*    <<v>>.                                                               *)
(*  - A float that is a ratio of integers is kept exact: an SMA is the     *)
(*    record [num, den] of the window's sum and the window; comparisons    *)
(*    cross-multiply.                                                      *)
(*  - A value rounded to 2 decimals is an integer number of hundredths.    *)
(*  - A Python exception is the field err = TRUE of an operator's result;  *)
(*    the state changes made before the raise are kept.                    *)
(*  - An ISO date YYYY-MM-DD is a day number; the code compares ISO        *)
(*    strings, whose order is the order of the days.                       *)
(***************************************************************************)
EXTENDS Integers, Sequences, FiniteSets, TLC

VARIABLES
    buckets,        \* DataStore._buckets: ordered mapping bucket -> list of symbols
    tickers,        \* DataStore._tickers: the keys of the ticker table
    state_file,     \* data/state.json as last written by _save_state
    breadth_cache,  \* DataStore._breadth_cache: Optional[bool]
    analyst_cache,  \* DataStore._analyst_cache: symbol -> payload with _ts
    hist,           \* what the price source returns for each symbol
    ext,            \* what the analyst, earnings and fundamentals sources return
    token,          \* whether FINNHUB_API_KEY / FINNHUB_TOKEN is configured
    now,            \* datetime.utcnow(), in seconds
    today,          \* date.today(), as a day number
    last,           \* the last operation: its name, outcome and external calls
    pass_at,        \* history: when signals(include_analyst=True) last enriched each symbol
    pass1,          \* history: the pass of signals() before pass2, under the same condition
    pass2,          \* history: the latest pass of signals(), if nothing but the clock changed since
    files,          \* the data directory of the refresher: path -> content
    pc,             \* where the refresher is in refresh_once()
    pending,        \* the payload refresh_once() is writing
    cache_dir,      \* the provider's disk cache data/cache: (kind, key) -> content
    reader,         \* what a reader of signals.json got the last time it read
    run             \* a pass of signals() that a request handler is in the middle of

worker_vars == <<files, pc, pending, reader, cache_dir, run>>

vars == <<buckets, tickers, state_file, breadth_cache, analyst_cache,
          hist, ext, token, now, today, last, pass_at, pass1, pass2, files, pc, pending, reader,
          cache_dir, run>>

None == <<>>
Some(v) == <<v>>

-----------------------------------------------------------------------------
(* Bounds of the model *)

\* bars a series may have beyond the 200-bar window
MaxExtraBars == 1
\* the clock stops advancing here (seconds)
MaxNow == 3601
\* the last day the calendar advances to
MaxDay == 2
\* watchlist mutations of other handlers while one pass of signals() runs
MaxInterleaved == 1
MaxFails == 3       \* failures in a row of the Yahoo history endpoint

-----------------------------------------------------------------------------
(* Program constants *)

WIN50 == 50
WIN200 == 200
\* stands for the -1e18 the code compares with when an SMA is None: a value
\* below every price
NEG_SENTINEL == -1000000000
BREADTH_PCT == 60
MIN_BARS == 200
ANALYST_TTL == 3600
RETRY_ATTEMPTS == 3
RSI_PERIOD == 14
VOL_WINDOW == 20

\* a prefix of bootstrap's initial_symbols
SymbolList == <<"NVDA", "ASML", "LLY", "DIS", "PATH">>
AllSymbols == {SymbolList[i] : i \in 1..Len(SymbolList)}
StoreSymbols == {"NVDA", "ASML"}
BootSymbols == <<"NVDA", "ASML">>
DefaultBuckets == <<"conviction", "swing", "premium", "avoid">>

-----------------------------------------------------------------------------
(* Sequences *)

\* sum and minimum of s[lo..hi], by halves
RECURSIVE SumRange(_, _, _)
SumRange(s, lo, hi) ==
    IF lo > hi THEN 0
    ELSE IF lo = hi THEN s[lo]
    ELSE LET mid == (lo + hi) \div 2
         IN SumRange(s, lo, mid) + SumRange(s, mid + 1, hi)

SeqSum(s) == SumRange(s, 1, Len(s))

RECURSIVE MinRange(_, _, _)
MinRange(s, lo, hi) ==
    IF lo = hi THEN s[lo]
    ELSE LET mid == (lo + hi) \div 2
             l == MinRange(s, lo, mid)
             r == MinRange(s, mid + 1, hi)
         IN IF l < r THEN l ELSE r

SeqMin(s) == MinRange(s, 1, Len(s))

\* pandas Series.tail(w)
TailN(s, w) == IF Len(s) <= w THEN s ELSE SubSeq(s, Len(s) - w + 1, Len(s))

InSeq(x, s) == \E i \in 1..Len(s) : s[i] = x

\* list.remove(x): drops the first occurrence
RemoveFirst(s, x) ==
    IF ~InSeq(x, s) THEN s
    ELSE LET i == CHOOSE k \in 1..Len(s) : s[k] = x /\ \A j \in 1..(k-1) : s[j] # x
         IN SubSeq(s, 1, i - 1) \o SubSeq(s, i + 1, Len(s))

-----------------------------------------------------------------------------
(* Price history source: YahooPriceProvider.recent_ohlc *)

\* A returned frame: n bars, all with close `base` except the last with close
\* `last` and the one before it with close `prev` (`base` unless said
\* otherwise); bars are flat (High = Low = Close). Every bar has volume `vol`
\* except the last with volume `vlast`. cols is FALSE when the frame lacks the
\* Close column.
Frame(n, base, lastc, cols) ==
    [n |-> n, base |-> base, last |-> lastc, cols |-> cols,
     prev |-> base, vol |-> 10, vlast |-> 30]

Closes(df) ==
    [i \in 1..df.n |-> IF i = df.n THEN df.last
                       ELSE IF i = df.n - 1 THEN df.prev ELSE df.base]
Volumes(df) == [i \in 1..df.n |-> IF i = df.n THEN df.vlast ELSE df.vol]
Lows(df) == Closes(df)

\* recent_ohlc: None on any failure and on an empty frame
recent_ohlc(h, sym) == h[sym]

\* DataStore._hist
_hist(h, sym) == recent_ohlc(h, sym)

-----------------------------------------------------------------------------
(* Indicator engine *)

\* DataStore._sma: None under `window` observations, else the mean of the tail
_sma(series, window) ==
    IF Len(series) < window THEN None
    ELSE Some([num |-> SeqSum(TailN(series, window)), den |-> window])

\* close > sma, for a present sma
GtRatio(close, q) == close * q.den > q.num

\* close > (sma if sma is not None else -1e18)
above_sma(close, sma) ==
    IF sma # None THEN GtRatio(close, sma[1]) ELSE close > NEG_SENTINEL

\* round(x, 2) of a non-negative ratio, in hundredths (the prices of this
\* model are even, so no ratio falls on a tie)
Round2(q) == (200 * q.num + q.den) \div (2 * q.den)

\* a faulty entry_ok that leaves the breadth flag out
entry_ok_no_breadth(above50, above200, risk) == above50 /\ above200

\* bool(above50 and above200 and self.risk_on())
entry_ok_of(above50, above200, risk) == above50 /\ above200 /\ risk

\* the row _calc_signal returns for a missing or empty frame
NoDataRow(sym, bucket) ==
    [symbol |-> sym, bucket |-> bucket, close |-> None, sma50 |-> None,
     sma200 |-> None, above50 |-> FALSE, above200 |-> FALSE, entry_ok |-> FALSE,
     rsi14 |-> None, rsi_zone |-> None, vol_avg20_ratio |-> None, reentry |-> None]

-----------------------------------------------------------------------------
(* Watchlist container *)

BucketNames(b) == {b[i].name : i \in 1..Len(b)}

\* a faulty iteration that starts with the last bucket
RECURSIVE last_bucket_first(_)
last_bucket_first(b) ==
    IF b = <<>> THEN <<>>
    ELSE last_bucket_first(Tail(b))
         \o [i \in 1..Len(b[1].syms) |-> [bucket |-> b[1].name, symbol |-> b[1].syms[i]]]

\* for bucket, syms in self._buckets.items(): for sym in syms
RECURSIVE Entries(_)
Entries(b) ==
    IF b = <<>> THEN <<>>
    ELSE [i \in 1..Len(b[1].syms) |-> [bucket |-> b[1].name, symbol |-> b[1].syms[i]]]
         \o Entries(Tail(b))

\* _save_state: the payload written to state.json
Saved(b, t) == [buckets |-> b, tickers |-> t]

\* create_bucket on a key: a new empty list at the end of the mapping
create_bucket(b, key) ==
    IF key \in BucketNames(b) THEN b ELSE Append(b, [name |-> key, syms |-> <<>>])

\* a faulty removal that leaves every list as it is
keep_lists(b, sym) == b

\* for lst in self._buckets.values(): if sym in lst: lst.remove(sym)
remove_everywhere(b, sym) ==
    [i \in 1..Len(b) |-> [b[i] EXCEPT !.syms = RemoveFirst(@, sym)]]

\* self._buckets[target].append(sym)
append_to(b, key, sym) ==
    [i \in 1..Len(b) |-> IF b[i].name = key
                         THEN [b[i] EXCEPT !.syms = Append(@, sym)] ELSE b[i]]

\* the list of bucket key, <<>> when there is none
ListOf(b, key) ==
    IF key \in BucketNames(b)
    THEN b[CHOOSE i \in 1..Len(b) : b[i].name = key].syms ELSE <<>>

\* self._buckets.pop(key): the mapping without the key, the others in order
pop_bucket(b, key) == SelectSeq(b, LAMBDA e : e.name # key)

\* rename_bucket on the keys: ValueError when oldk is missing or newk exists;
\* the popped list is stored under newk, a new key at the end of the mapping
rename_bucket(b, oldk, newk) ==
    IF oldk \notin BucketNames(b) \/ newk \in BucketNames(b)
    THEN [err |-> TRUE, buckets |-> b, saved |-> FALSE]
    ELSE [err |-> FALSE,
          buckets |-> Append(pop_bucket(b, oldk), [name |-> newk, syms |-> ListOf(b, oldk)]),
          saved |-> TRUE]

\* a faulty move to "avoid" that puts the moved symbols in place of its list
avoid_replaced(b, moved) ==
    LET b1 == create_bucket(b, "avoid")
    IN [i \in 1..Len(b1) |-> IF b1[i].name = "avoid"
                             THEN [b1[i] EXCEPT !.syms = moved] ELSE b1[i]]

\* self._buckets.setdefault("avoid", []).extend(moved)
extend_avoid(b, moved) ==
    LET b1 == create_bucket(b, "avoid")
    IN [i \in 1..Len(b1) |-> IF b1[i].name = "avoid"
                             THEN [b1[i] EXCEPT !.syms = @ \o moved] ELSE b1[i]]

\* a faulty delete_bucket that discards the symbols of the bucket
drop_bucket(b, key) ==
    IF key \notin BucketNames(b)
    THEN [err |-> FALSE, buckets |-> b, saved |-> FALSE]
    ELSE [err |-> FALSE, buckets |-> pop_bucket(b, key), saved |-> TRUE]

\* delete_bucket on a key: the symbols of the popped bucket go to "avoid"
delete_bucket(b, key) ==
    IF key \notin BucketNames(b)
    THEN [err |-> FALSE, buckets |-> b, saved |-> FALSE]
    ELSE [err |-> FALSE,
          buckets |-> extend_avoid(pop_bucket(b, key), ListOf(b, key)),
          saved |-> TRUE]

-----------------------------------------------------------------------------
(* Breadth calculator: DataStore.risk_on *)

\* the scan of risk_on over the entries es, from the counts in acc: total,
\* above, the number of _hist calls, and err when df["Close"] raises
RECURSIVE breadth_scan(_, _, _)
breadth_scan(es, h, acc) ==
    IF es = <<>> \/ acc.err THEN acc
    ELSE LET df == _hist(h, es[1].symbol)
             seen == [acc EXCEPT !.calls = @ + 1]
             step ==
                 IF df = None THEN seen
                 ELSE IF df[1].n < MIN_BARS THEN seen
                 ELSE IF ~df[1].cols THEN [seen EXCEPT !.err = TRUE]
                 ELSE LET closes == Closes(df[1])
                          close == closes[Len(closes)]
                          sma200 == _sma(closes, WIN200)
                      IN IF sma200 = None THEN seen
                         ELSE [seen EXCEPT
                                 !.total = @ + 1,
                                 !.above = @ + (IF GtRatio(close, sma200[1]) THEN 1 ELSE 0)]
         IN breadth_scan(Tail(es), h, step)

ScanStart == [err |-> FALSE, total |-> 0, above |-> 0, calls |-> 0]

\* a faulty threshold: at least 60% instead of more than 60%
breadth_flag_at_least(total, above) ==
    IF total = 0 THEN FALSE ELSE 100 * above >= BREADTH_PCT * total

\* pct = 100 * above / total; pct > 60.0
breadth_flag(total, above) ==
    IF total = 0 THEN FALSE ELSE 100 * above > BREADTH_PCT * total

\* a faulty risk_on that never trusts its cache
never_hit(cache) == FALSE

\* if self._breadth_cache is not None: return self._breadth_cache
cache_hit(cache) == cache # None

\* a faulty risk_on that does not keep what it computed
forget_breadth(v) == None

\* self._breadth_cache = <the flag computed>
store_breadth(v) == Some(v)

\* risk_on(): the value returned, the cache afterwards, the number of full
\* scans made (0 on a cache hit) and of _hist calls
risk_on(cache, b, h) ==
    IF cache_hit(cache)
    THEN [err |-> FALSE, value |-> cache[1], cache |-> cache, scans |-> 0, calls |-> 0]
    ELSE LET sc == breadth_scan(Entries(b), h, ScanStart)
             v == breadth_flag(sc.total, sc.above)
         IN IF sc.err
            THEN [err |-> TRUE, value |-> FALSE, cache |-> cache, scans |-> 1, calls |-> sc.calls]
            ELSE [err |-> FALSE, value |-> v, cache |-> store_breadth(v), scans |-> 1, calls |-> sc.calls]

-----------------------------------------------------------------------------
(* DataStore._calc_signal *)

W52 == 252

\* the divisions of _calc_signal that raise ZeroDivisionError: close / sma50,
\* close / sma200, w52_high / close and close / w52_low
calc_divides_by_zero(df, close, sma50, sma200) ==
    \/ sma50 # None /\ sma50[1].num = 0
    \/ sma200 # None /\ sma200[1].num = 0
    \/ close = 0
    \/ SeqMin(TailN(Lows(df), W52)) = 0

\* a float: not-a-number, or a number in hundredths
NaN == [nan |-> TRUE, v |-> 0]
Num(v) == [nan |-> FALSE, v |-> v]

\* comparisons of a float with a number: every comparison with NaN is False
float_lt(x, y) == ~x.nan /\ x.v < y
float_gt(x, y) == ~x.nan /\ x.v > y
float_le(x, y) == ~x.nan /\ x.v <= y
float_ge(x, y) == ~x.nan /\ x.v >= y

\* the sum of the rises (up) or of the falls of a series
RECURSIVE Moves(_, _)
Moves(s, up) ==
    IF Len(s) < 2 THEN 0
    ELSE LET d == IF up THEN s[2] - s[1] ELSE s[1] - s[2]
         IN (IF d > 0 THEN d ELSE 0) + Moves(Tail(s), up)

\* rsi.iloc[-1]: the rolling means of the last `period` differences are NaN
\* when the series has fewer than period + 1 closes; a mean of losses of 0 is
\* replaced by 1e-9, which with whole-number rises puts the value within
\* 1e-5 of 100
rsi_last(series, period) ==
    LET w == TailN(series, period + 1)
        gains == Moves(w, TRUE)
        losses == Moves(w, FALSE)
    IN IF Len(series) < period + 1 THEN NaN
       ELSE IF losses = 0 THEN Num(IF gains = 0 THEN 0 ELSE 10000)
       ELSE Num(Round2([num |-> 100 * gains, den |-> gains + losses]))

\* _rsi: None when the value is below 0 or above 100, else round(val, 2),
\* which leaves NaN as it is
_rsi(series, period) ==
    LET val == rsi_last(series, period)
    IN IF float_lt(val, 0) \/ float_gt(val, 10000) THEN None ELSE Some(val)

\* rsi_zone of _calc_signal
rsi_zone_of(rsi14) ==
    IF rsi14 # None /\ float_ge(rsi14[1], 7000) THEN Some("Overbought")
    ELSE IF rsi14 # None /\ float_le(rsi14[1], 3000) THEN Some("Oversold")
    ELSE IF rsi14 # None THEN Some("Neutral")
    ELSE None

\* float(df["Volume"].rolling(window=20).mean().iloc[-1]): NaN under 20
\* bars, else the mean of the last 20 volumes
vol_avg20_of(volumes) ==
    IF Len(volumes) < VOL_WINDOW THEN [nan |-> TRUE, num |-> 0, den |-> 1]
    ELSE [nan |-> FALSE, num |-> SeqSum(TailN(volumes, VOL_WINDOW)), den |-> VOL_WINDOW]

\* bool(x) and x != 0 of a float: only 0.0 is falsy, and NaN != 0 is True
truthy(x) == x.nan \/ x.num # 0
ne_zero(x) == x.nan \/ x.num # 0

\* round((vol_last / vol_avg20), 2) if (vol_avg20 and vol_avg20 != 0) else
\* None; a quotient by NaN is NaN
vol_avg20_ratio_of(volumes) ==
    LET vol_avg20 == vol_avg20_of(volumes)
        vol_last == volumes[Len(volumes)]
    IN IF ~(truthy(vol_avg20) /\ ne_zero(vol_avg20)) THEN None
       ELSE IF vol_avg20.nan THEN Some(NaN)
       ELSE Some(Num(Round2([num |-> vol_last * vol_avg20.den, den |-> vol_avg20.num])))

\* a faulty re-entry flag: crossed below the average instead of above it
crossed_below(n, y_close, close, sma50) ==
    IF n >= 2 /\ sma50 # None
    THEN Some(y_close * sma50[1].den > sma50[1].num /\ close * sma50[1].den < sma50[1].num)
    ELSE None

\* reentry = (y_close < sma50) and (close > sma50) if len(df) >= 2 and sma50
\* is not None, else None
reentry_of(n, y_close, close, sma50) ==
    IF n >= 2 /\ sma50 # None
    THEN Some(y_close * sma50[1].den < sma50[1].num /\ close * sma50[1].den > sma50[1].num)
    ELSE None

\* what _calc_signal has of risk_on() when `and` stops before calling it
not_asked(cache) == [err |-> FALSE, value |-> FALSE, cache |-> cache, scans |-> 0, calls |-> 0]

\* the row of _calc_signal from its locals, ro being the outcome of the
\* risk_on() call of line 325 (not_asked when it was not made)
signal_row(sym, bucket, df, close, sma50, sma200, above50, above200, ro) ==
    [err |-> ro.err \/ calc_divides_by_zero(df, close, sma50, sma200),
     row |-> [symbol |-> sym, bucket |-> bucket, close |-> Some(close),
              sma50 |-> sma50, sma200 |-> sma200,
              above50 |-> above50, above200 |-> above200,
              entry_ok |-> entry_ok_of(above50, above200, ro.value),
              rsi14 |-> _rsi(Closes(df), RSI_PERIOD),
              rsi_zone |-> rsi_zone_of(_rsi(Closes(df), RSI_PERIOD)),
              vol_avg20_ratio |-> vol_avg20_ratio_of(Volumes(df)),
              reentry |-> reentry_of(df.n, IF df.n >= 2 THEN Closes(df)[df.n - 1] ELSE 0,
                                     close, sma50)],
     cache |-> ro.cache, scans |-> ro.scans,
     risk |-> IF above50 /\ above200 /\ ~ro.err THEN <<ro.value>> ELSE <<>>,
     calls |-> 1 + ro.calls]

\* _calc_signal(symbol, bucket) with the breadth cache as it stands: the row,
\* the cache afterwards, the breadth scans made, the values risk_on() returned
\* and the number of _hist calls
_calc_signal(sym, bucket, cache, b, h) ==
    LET df == _hist(h, sym)
        quiet == [err |-> FALSE, row |-> NoDataRow(sym, bucket), cache |-> cache,
                  scans |-> 0, risk |-> <<>>, calls |-> 1]
        closes == Closes(df[1])
        close == closes[Len(closes)]
        sma50 == _sma(closes, WIN50)
        sma200 == _sma(closes, WIN200)
        above50 == above_sma(close, sma50)
        above200 == above_sma(close, sma200)
    IN IF df = None THEN quiet
       ELSE IF ~df[1].cols THEN [quiet EXCEPT !.err = TRUE]
       ELSE signal_row(sym, bucket, df[1], close, sma50, sma200, above50, above200,
                       IF above50 /\ above200 THEN risk_on(cache, b, h)
                       ELSE not_asked(cache))

-----------------------------------------------------------------------------
(* Analyst provider: providers/finnhub_analyst.py *)

\* counts.get(k, 0) of an absent counts dict
ZeroCounts == [strongBuy |-> 0, buy |-> 0, hold |-> 0, sell |-> 0, strongSell |-> 0]

SetMin(S) == CHOOSE d \in S : \A e \in S : d <= e
SetMax(S) == CHOOSE d \in S : \A e \in S : d >= e

\* round(x, 2) of a ratio of either sign, in hundredths
Round2Signed(q) ==
    IF q.num >= 0 THEN Round2(q)
    ELSE -Round2([num |-> -q.num, den |-> q.den])

\* _latest_reco_from_finnhub on the answer x.reco of /stock/recommendation:
\* it raises when the request or the decoding raises, gives None on a
\* non-200 status or an empty list, else the latest period's counts
_latest_reco_from_finnhub(x) ==
    IF x.reco.kind = "raise" THEN [err |-> TRUE, rec |-> None]
    ELSE IF x.reco.kind = "none" THEN [err |-> FALSE, rec |-> None]
    ELSE LET c == x.reco.counts
             total == c.strongBuy + c.buy + c.hold + c.sell + c.strongSell
             percent == [buy |-> [num |-> 100 * (c.strongBuy + c.buy), den |-> total],
                         hold |-> [num |-> 100 * c.hold, den |-> total],
                         sell |-> [num |-> 100 * (c.sell + c.strongSell), den |-> total]]
         IN [err |-> FALSE,
             rec |-> Some([counts |-> c,
                           percent |-> IF total <= 0 THEN None ELSE Some(percent),
                           total |-> IF total <= 0 THEN None ELSE Some(total)])]

\* FinnhubAnalystProvider.recommendation
recommendation(tok, x) ==
    IF ~tok THEN [err |-> FALSE, rec |-> None] ELSE _latest_reco_from_finnhub(x)

\* _yahoo_price_target: never raises
_yahoo_price_target(x) ==
    LET info == x.info
        avg == IF info.mean # None THEN Some([num |-> info.mean[1], den |-> 1])
               ELSE IF info.high # None /\ info.low # None
                    THEN Some([num |-> info.high[1] + info.low[1], den |-> 2])
                    ELSE None
    IN IF info.kind = "fail" THEN None
       ELSE IF avg = None /\ info.median = None /\ info.high = None /\ info.low = None
            THEN None
            ELSE Some([avg_target |-> avg, median |-> info.median,
                       high |-> info.high, low |-> info.low])

\* FinnhubAnalystProvider.price_target
price_target(x) == _yahoo_price_target(x)

\* _first_future_iso: the earliest candidate on or after `day`
_first_future_iso(cands, day) ==
    LET future == {d \in cands : d >= day}
    IN IF future = {} THEN None ELSE Some(SetMin(future))

\* _finnhub_next_earnings
_finnhub_next_earnings(tok, x, day) ==
    IF ~tok \/ x.fh.fail THEN None ELSE _first_future_iso(x.fh.days, day)

\* fut[0] if fut else sorted(cands)[-1]
first_future_or_latest(cands, day) ==
    LET fut == {d \in cands : d >= day}
    IN IF cands = {} THEN None
       ELSE IF fut # {} THEN Some(SetMin(fut)) ELSE Some(SetMax(cands))

\* _yahoo_next_earnings: calendar keys first, the earnings-dates history
\* when they give nothing; `utc_day` is datetime.utcnow().date()
_yahoo_next_earnings(x, utc_day) ==
    LET cal == x.ycal.days
        cands == IF cal # {} THEN cal
                 ELSE IF x.yed.fail THEN {} ELSE x.yed.days
    IN IF x.ycal.fail THEN None ELSE first_future_or_latest(cands, utc_day)

\* FinnhubAnalystProvider.next_earnings
next_earnings(tok, x, day, utc_day) ==
    LET d == _finnhub_next_earnings(tok, x, day)
    IN IF d # None THEN d ELSE _yahoo_next_earnings(x, utc_day)

\* data_store._yahoo_next_earnings_fallback: also reads the key
\* "Earnings Date Estimate"; a failing calendar leaves no candidates
_yahoo_next_earnings_fallback(x, day) ==
    LET cal == IF x.ycal.fail THEN {} ELSE x.ycal.days \cup x.ycal.est
        cands == IF cal # {} THEN cal
                 ELSE IF x.yed.fail THEN {} ELSE x.yed.days
    IN first_future_or_latest(cands, day)

-----------------------------------------------------------------------------
(* Enrichment resolver: DataStore._analyst_maybe and _fundamentals *)

AnalystKeys == {"avg_target", "buy_pct", "hold_pct", "sell_pct", "analyst_total"}

\* r2: None stays None, else round(float(x), 2)
r2(x) == IF x = None THEN None ELSE Some(Round2Signed(x[1]))

\* the cached payload is fresh: (now - ts).total_seconds() <= 3600
cache_fresh(cached, t_now) == cached # None /\ t_now - cached[1]._ts <= ANALYST_TTL

\* n / d as a ratio with a positive denominator
Frac(n, d) == IF d < 0 THEN [num |-> -n, den |-> -d] ELSE [num |-> n, den |-> d]

\* sum(int(counts.get(k, 0)) for k in the five ratings)
sum_counts(counts) ==
    counts.strongBuy + counts.buy + counts.hold + counts.sell + counts.strongSell

\* the total after "derive total analysts if not provided but counts exist";
\* the counts dict of a recommendation has its five keys, so it is truthy
derived_total(total0, counts) ==
    IF total0 = None \/ total0[1] = 0 THEN Some(sum_counts(counts)) ELSE total0

\* a faulty derivation that leaves the strong ratings out
percent_of_plain_ratings(counts, total) ==
    [buy |-> Frac(100 * counts.buy, total),
     hold |-> Frac(100 * counts.hold, total),
     sell |-> Frac(100 * counts.sell, total)]

\* the percentages derived from the counts, for a total that is not 0
derived_percent(counts, total) ==
    [buy |-> Frac(100 * (counts.strongBuy + counts.buy), total),
     hold |-> Frac(100 * counts.hold, total),
     sell |-> Frac(100 * (counts.sell + counts.strongSell), total)]

\* the payload _analyst_maybe resolves from the provider's answers rec and pt
analyst_payload(rec, pt, t_now) ==
    LET avg0 == IF pt = None THEN None ELSE pt[1].avg_target
        \* pt.get("avg_target") or pt.get("targetMean"): a zero target is falsy
        avg_target == IF avg0 # None /\ avg0[1].num = 0 THEN None ELSE avg0
        perc == IF rec = None THEN None ELSE rec[1].percent
        total0 == IF rec = None THEN None ELSE rec[1].total
        counts == IF rec = None THEN ZeroCounts ELSE rec[1].counts
        total == IF rec # None THEN derived_total(total0, counts) ELSE total0
        \* ... and counts and total: a total of 0 is falsy
        derive == perc = None /\ rec # None /\ total # None /\ total[1] # 0
        pct(k) == IF derive THEN Some(derived_percent(counts, total[1])[k]) ELSE None
    IN [avg_target |-> r2(avg_target),
        buy_pct |-> r2(IF perc = None THEN pct("buy") ELSE Some(perc[1].buy)),
        hold_pct |-> r2(IF perc = None THEN pct("hold") ELSE Some(perc[1].hold)),
        sell_pct |-> r2(IF perc = None THEN pct("sell") ELSE Some(perc[1].sell)),
        analyst_total |-> total, _ts |-> t_now]

\* a faulty store that returns the five fields and caches them without the
\* target
store_without_target(sym, acache, payload) ==
    [err |-> FALSE, fields |-> [k \in AnalystKeys |-> payload[k]],
     acache |-> [acache EXCEPT ![sym] = Some([payload EXCEPT !.avg_target = None])],
     calls |-> {"recommendation", "price_target"}]

\* self._analyst_cache[symbol] = payload; return the five fields
analyst_store(sym, acache, payload) ==
    [err |-> FALSE, fields |-> [k \in AnalystKeys |-> payload[k]],
     acache |-> [acache EXCEPT ![sym] = Some(payload)],
     calls |-> {"recommendation", "price_target"}]

\* _analyst_maybe past the cache check: rc is what recommendation() did; when
\* it raised, price_target is not reached
analyst_fetch(sym, acache, x, t_now, rc) ==
    IF rc.err
    THEN [err |-> TRUE, fields |-> [k \in AnalystKeys |-> None],
          acache |-> acache, calls |-> {"recommendation"}]
    ELSE analyst_store(sym, acache, analyst_payload(rc.rec, price_target(x), t_now))

\* _analyst_maybe(symbol): the five fields, the analyst cache afterwards and
\* the provider methods called
_analyst_maybe(sym, acache, x, tok, t_now) ==
    IF cache_fresh(acache[sym], t_now)
    THEN [err |-> FALSE, fields |-> [k \in AnalystKeys |-> acache[sym][1][k]],
          acache |-> acache, calls |-> {}]
    ELSE analyst_fetch(sym, acache, x, t_now, recommendation(tok, x))

\* to_pct: round(float(x) * 100.0, 2) of a ratio given in whole percents
to_pct(x) == IF x = None THEN None ELSE Some(100 * x[1])

NoFundamentals ==
    [revenue_growth_pct |-> None, profit_margin_pct |-> None,
     market_cap |-> None, revenue |-> None]

\* _fundamentals: all None when the metrics source fails
_fundamentals(x) ==
    IF x.info.kind = "fail" THEN NoFundamentals
    ELSE [revenue_growth_pct |-> to_pct(x.info.growth),
          profit_margin_pct |-> to_pct(x.info.margin),
          market_cap |-> x.info.cap, revenue |-> x.info.revenue]

\* analyst_snapshot: the recommendation call is not guarded, the earnings
\* call is; a key is present (not None) when its value is
analyst_snapshot(tok, x, day, utc_day) ==
    IF recommendation(tok, x).err
    THEN [err |-> TRUE, out |-> None, calls |-> {"recommendation"}]
    ELSE [err |-> FALSE,
          out |-> Some([recommendation |-> recommendation(tok, x).rec,
                        price_target |-> price_target(x),
                        next_earnings |-> next_earnings(tok, x, day, utc_day)]),
          calls |-> {"recommendation", "price_target", "next_earnings"}]

-----------------------------------------------------------------------------
(* Signal assembler: DataStore.signals *)

\* d.update(other)
Merge(d, other) ==
    [k \in (DOMAIN d) \cup (DOMAIN other) |-> IF k \in DOMAIN other THEN other[k] ELSE d[k]]

\* the base fields of a record, rounded to 2 decimals, and those of the
\* added indicator fields this model has (round(x, 2) leaves NaN as it is)
base_fields(row) ==
    [symbol |-> row.symbol, bucket |-> row.bucket,
     close |-> IF row.close = None THEN None ELSE Some(100 * row.close[1]),
     sma50 |-> IF row.sma50 = None THEN None ELSE Some(Round2(row.sma50[1])),
     sma200 |-> IF row.sma200 = None THEN None ELSE Some(Round2(row.sma200[1])),
     above50 |-> row.above50, above200 |-> row.above200, entry_ok |-> row.entry_ok,
     rsi14 |-> row.rsi14, rsi_zone |-> row.rsi_zone,
     vol_avg20_ratio |-> row.vol_avg20_ratio, reentry |-> row.reentry]

\* a faulty assembler that passes the resolved date on as it is
keep_date(ne, day) == ne

\* if ne: if ne < date.today().isoformat(): ne = None
null_if_past(ne, day) == IF ne # None /\ ne[1] < day THEN None ELSE ne

\* round((at / cp - 1.0) * 100.0, 2) when both are present and cp != 0
dist_to_target(avg_target, close) ==
    IF avg_target # None /\ close # None /\ close[1] # 0
    THEN Some(Round2Signed([num |-> 100 * (avg_target[1] - close[1]), den |-> close[1]]))
    ELSE None

\* the state a pass starts from
PassStart(cache, acache) ==
    [err |-> FALSE, out |-> <<>>, cache |-> cache, acache |-> acache,
     scans |-> 0, risk |-> <<>>, hist_calls |-> 0, calls |-> {}, enriched |-> {}]

\* the rest of a turn of the loop of signals() once _calc_signal has answered
\* cs and _analyst_maybe would answer am: the record is appended to out unless
\* one of them raised
entry_record(st, e, c, cs, am) ==
    LET sym == e.symbol
        x == c.ext[sym]
        ne0 == next_earnings(c.token, x, c.today, c.utc_day)
        ne1 == IF ne0 = None THEN _yahoo_next_earnings_fallback(x, c.today) ELSE ne0
        d0 == base_fields(cs.row)
        enrich == [next_earnings |-> null_if_past(ne1, c.today),
                   dist_to_target_pct |-> dist_to_target(am.fields.avg_target, d0.close)]
        called == {<<m, sym>> : m \in am.calls}
        seen == [st EXCEPT !.cache = cs.cache, !.scans = @ + cs.scans,
                           !.risk = @ \o cs.risk, !.hist_calls = @ + cs.calls]
    IN IF cs.err THEN [seen EXCEPT !.err = TRUE]
       ELSE IF ~c.include_analyst
            THEN [seen EXCEPT !.calls = @ \cup {<<"fundamentals", sym>>},
                              !.out = Append(@, Merge(d0, _fundamentals(x)))]
            ELSE IF am.err
                 THEN [seen EXCEPT !.err = TRUE, !.calls = @ \cup called]
                 ELSE [seen EXCEPT
                         !.acache = am.acache,
                         !.calls = @ \cup called \cup {<<"next_earnings", sym>>,
                                                        <<"fundamentals", sym>>},
                         !.enriched = @ \cup {sym},
                         !.out = Append(@, Merge(Merge(Merge(d0, am.fields), enrich),
                                                 _fundamentals(x)))]

\* one turn of the loop of signals() for the entry e; c holds the pass's
\* arguments and surroundings
signals_entry(st, e, c) ==
    entry_record(st, e, c,
                 _calc_signal(e.symbol, e.bucket, st.cache, c.buckets, c.hist),
                 _analyst_maybe(e.symbol, st.acache, c.ext[e.symbol], c.token, c.now))

RECURSIVE signals_loop(_, _, _)
signals_loop(st, es, c) ==
    IF es = <<>> \/ st.err THEN st
    ELSE signals_loop(signals_entry(st, es[1], c), Tail(es), c)

\* signals(include_analyst) in the surroundings c
signals(cache, acache, c) == signals_loop(PassStart(cache, acache), Entries(c.buckets), c)

-----------------------------------------------------------------------------
(* Identifier resolution: security/id_map.py *)

\* str.upper() and str.strip().lower() on the inputs of this model
Upper(s) == IF s = "asml" THEN "ASML" ELSE s
Lower(s) == IF s = "Growth" THEN "growth" ELSE s

\* len(s) == 12 and s.isalnum(), on the inputs of this model
IsinShaped(s) == s \in {"IE00BP3QZ825", "US0378331005"}

ISIN_TO_SYMBOL == [i \in {"IE00BP3QZ825"} |-> "IS3R.DE"]

\* a faulty resolution that takes every input for a symbol
taken_as_symbol(id) == Some(Upper(id))

\* resolve_security: None for an empty input and for an unknown ISIN
resolve_security(id) ==
    IF id = "" THEN None
    ELSE LET s == Upper(id)
         IN IF IsinShaped(s)
            THEN IF s \in DOMAIN ISIN_TO_SYMBOL THEN Some(ISIN_TO_SYMBOL[s]) ELSE None
            ELSE Some(s)

-----------------------------------------------------------------------------
(* Ticker management: DataStore.add_ticker, remove_ticker, move_ticker *)

\* add_ticker on the watchlist w = [buckets, tickers]; bucket is Optional
add_ticker(w, id, bucket) ==
    LET resolved == resolve_security(id)
        sym == Upper(resolved[1])
        target == Lower(IF bucket = None THEN "swing" ELSE bucket[1])
        b1 == create_bucket(w.buckets, target)
    IN IF resolved = None
       THEN [err |-> TRUE, buckets |-> w.buckets, tickers |-> w.tickers, cleared |-> FALSE]
       ELSE [err |-> FALSE,
             buckets |-> append_to(remove_everywhere(b1, sym), target, sym),
             tickers |-> w.tickers \cup {sym},
             cleared |-> TRUE]

\* a faulty remove_ticker that keeps the ticker's metadata
remove_from_lists(w, symbol) ==
    [err |-> FALSE, buckets |-> remove_everywhere(w.buckets, Upper(symbol)),
     tickers |-> w.tickers, cleared |-> TRUE]

\* remove_ticker
remove_ticker(w, symbol) ==
    LET sym == Upper(symbol)
    IN [err |-> FALSE, buckets |-> remove_everywhere(w.buckets, sym),
        tickers |-> w.tickers \ {sym}, cleared |-> TRUE]

\* move_ticker: returns at once for a symbol that is no ticker
move_ticker(w, symbol, bucket) ==
    LET sym == Upper(symbol)
        target == Lower(bucket)
        b1 == create_bucket(w.buckets, target)
    IN IF sym \notin w.tickers
       THEN [err |-> FALSE, buckets |-> w.buckets, tickers |-> w.tickers, cleared |-> FALSE]
       ELSE [err |-> FALSE,
             buckets |-> append_to(remove_everywhere(b1, sym), target, sym),
             tickers |-> w.tickers, cleared |-> TRUE]

\* bootstrap: add_ticker(sym, bucket="swing") for each initial symbol
RECURSIVE bootstrap(_, _)
bootstrap(w, syms) ==
    IF syms = <<>> THEN w
    ELSE LET r == add_ticker(w, syms[1], Some("swing"))
         IN bootstrap([buckets |-> r.buckets, tickers |-> r.tickers], Tail(syms))

\* DataStore.__init__ without a state file: the default buckets, bootstrapped
Constructed ==
    bootstrap([buckets |-> [i \in 1..Len(DefaultBuckets) |->
                              [name |-> DefaultBuckets[i], syms |-> <<>>]],
               tickers |-> {}],
              BootSymbols)

-----------------------------------------------------------------------------
(* Inputs *)

\* what a caller passes to add_ticker, remove_ticker and move_ticker
IdInputs == {"NVDA", "asml", "", "US0378331005"}
SymbolInputs == {"NVDA", "asml"}
BucketInputs == {"swing", "Growth"}

\* frames the price source returns: 200 bars and more closing above their
\* average, 200 bars closing below it, histories under 50 and under 200 bars,
\* a last close of zero, 14 bars (one short of an RSI) and a frame without
\* the Close column
FrameUp == Some(Frame(MIN_BARS, 2, 4, TRUE))
FramesUp == {Some(Frame(MIN_BARS + k, 2, 4, TRUE)) : k \in 0..MaxExtraBars}
FrameDown == Some(Frame(MIN_BARS, 4, 2, TRUE))
FrameShort == Some(Frame(WIN50 - 1, 2, 4, TRUE))
FrameMid == Some(Frame(WIN200 - 1, 2, 4, TRUE))
FrameZeroClose == Some(Frame(MIN_BARS, 2, 0, TRUE))
FrameTiny == Some(Frame(RSI_PERIOD, 2, 4, TRUE))
FrameNoColumn == Some(Frame(MIN_BARS, 2, 4, FALSE))
\* a single bar; 50 bars that stay where they are, that close twice above
\* their average, that fell a day ago and stay down; 20 bars and more without
\* a trade; 20 bars whose last trades five times the usual volume
FrameOne == Some(Frame(1, 2, 2, TRUE))
FrameFlat == Some(Frame(WIN50, 2, 2, TRUE))
FrameBothAbove == Some([Frame(WIN50, 2, 4, TRUE) EXCEPT !.prev = 6])
FrameBothBelow == Some([Frame(WIN50, 4, 2, TRUE) EXCEPT !.prev = 2])
FrameNoTrade == Some([Frame(WIN50, 2, 4, TRUE) EXCEPT !.vol = 0, !.vlast = 0])
FrameBusy == Some([Frame(VOL_WINDOW, 2, 4, TRUE) EXCEPT !.vol = 4, !.vlast = 20])
IndicatorFrames ==
    {FrameUp, FrameDown, FrameShort, FrameTiny, FrameOne, FrameFlat, FrameBothAbove,
     FrameBothBelow, FrameNoTrade, FrameBusy, None}

HistChoices(sym) ==
    CASE sym = "NVDA" -> {FrameUp, FrameDown, FrameZeroClose}
      [] sym = "ASML" -> {FrameUp, FrameShort, FrameTiny, FrameNoColumn, None}
      [] OTHER -> {None}

\* the frames of the breadth scan
BreadthFrames == FramesUp \cup {FrameDown, FrameMid, None}

\* the answers of the analyst, earnings and fundamentals sources for a symbol
NoInfo == [kind |-> "fail", mean |-> None, median |-> None, high |-> None, low |-> None,
           growth |-> None, margin |-> None, cap |-> None, revenue |-> None]
NoEarnings == [fh |-> [fail |-> TRUE, days |-> {}],
               ycal |-> [fail |-> TRUE, days |-> {}, est |-> {}],
               yed |-> [fail |-> TRUE, days |-> {}]]
ExtOf(reco, info, earn) ==
    [reco |-> reco, info |-> info, fh |-> earn.fh, ycal |-> earn.ycal, yed |-> earn.yed]

\* every source unavailable
NoExt == ExtOf([kind |-> "none", counts |-> ZeroCounts], NoInfo, NoEarnings)

\* the Finnhub recommendation request raises (a timeout); the other sources
\* answer
ExtRecoRaises ==
    ExtOf([kind |-> "raise", counts |-> ZeroCounts],
          [NoInfo EXCEPT !.kind = "ok", !.mean = Some(6), !.growth = Some(12)],
          [NoEarnings EXCEPT !.ycal = [fail |-> FALSE, days |-> {2}, est |-> {}]])

\* a consensus of ten analysts, a target given by its high and low, earnings
\* dates in the Finnhub and the Yahoo calendar
ExtConsensus ==
    ExtOf([kind |-> "ok",
           counts |-> [strongBuy |-> 3, buy |-> 2, hold |-> 4, sell |-> 1, strongSell |-> 0]],
          [NoInfo EXCEPT !.kind = "ok", !.high = Some(8), !.low = Some(4)],
          [NoEarnings EXCEPT !.fh = [fail |-> FALSE, days |-> {1, 2}],
                             !.ycal = [fail |-> FALSE, days |-> {1}, est |-> {}]])

\* only the earnings-dates history answers, with a date gone by
ExtHistoryOnly ==
    ExtOf([kind |-> "none", counts |-> ZeroCounts], NoInfo,
          [NoEarnings EXCEPT !.ycal = [fail |-> FALSE, days |-> {}, est |-> {}],
                             !.yed = [fail |-> FALSE, days |-> {0}]])

\* only the calendar's "Earnings Date Estimate" key answers, with a date gone by
ExtEstimateOnly ==
    ExtOf([kind |-> "none", counts |-> ZeroCounts], NoInfo,
          [NoEarnings EXCEPT !.ycal = [fail |-> FALSE, days |-> {}, est |-> {0}]])

\* the Yahoo calendar still shows the earnings date gone by, the
\* earnings-dates history already has the coming one
ExtCalendarPast ==
    ExtOf([kind |-> "none", counts |-> ZeroCounts], NoInfo,
          [NoEarnings EXCEPT !.ycal = [fail |-> FALSE, days |-> {0}, est |-> {}],
                             !.yed = [fail |-> FALSE, days |-> {0, 2}]])

\* Yahoo has a median target for the symbol and no mean, high or low
ExtMedianOnly ==
    ExtOf([kind |-> "none", counts |-> ZeroCounts],
          [NoInfo EXCEPT !.kind = "ok", !.median = Some(5)], NoEarnings)

\* nothing answers: the Finnhub request raises (no connection) or comes back
\* with an error status, the Yahoo requests fail
ExtOutage(kind) == ExtOf([kind |-> kind, counts |-> ZeroCounts], NoInfo, NoEarnings)

ExtInputs == {ExtRecoRaises, ExtConsensus, ExtHistoryOnly, ExtEstimateOnly}

\* recommendations by their counts alone: no rating at all, ratings that sum
\* to nothing or to less (a provider's correction entered as a negative
\* count), and plain ratings
CountsOf(sb, b, h, s, ss) ==
    [strongBuy |-> sb, buy |-> b, hold |-> h, sell |-> s, strongSell |-> ss]
ExtCounts(c) == ExtOf([kind |-> "ok", counts |-> c], NoInfo, NoEarnings)
CountChoices ==
    {ZeroCounts, CountsOf(1, 0, 0, 0, -1), CountsOf(1, 0, 1, 0, -4),
     CountsOf(0, 1, 1, -4, 0), CountsOf(2, 1, 1, 0, 0)}

-----------------------------------------------------------------------------
(* Operations *)

\* the record of an operation: its name and argument, how it ended, what it
\* returned, the breadth cache it started from, the breadth scans it made,
\* the values risk_on() returned within it, and its external calls
Idle(op) ==
    [op |-> op, arg |-> FALSE, status |-> "ok", ret |-> None, before |-> None,
     scans |-> 0, risk |-> <<>>, hist_calls |-> 0, calls |-> {}, off |-> 0,
     at |-> 0, fails |-> 0, sym |-> "", cached_at |-> <<>>]

\* no pass of signals() to compare the next one with
NoPass == Idle("none")

\* a faulty mutation that leaves the breadth cache as it is
keep_breadth(cache) == cache

\* self._breadth_cache = None, at the end of a ticker mutation
invalidate_breadth(cache) == None

\* history: the watchlists there have been while the pass was running
observed(r, b) == IF r.state = "running" THEN [r EXCEPT !.seen = @ \cup {b}] ELSE r

Mutation(op, r) ==
    /\ buckets' = r.buckets
    /\ tickers' = r.tickers
    /\ breadth_cache' = IF r.cleared THEN invalidate_breadth(breadth_cache) ELSE breadth_cache
    /\ state_file' = IF r.cleared THEN Saved(r.buckets, r.tickers) ELSE state_file
    /\ last' = [Idle(op) EXCEPT !.status = IF r.err THEN "raised" ELSE "ok",
                                !.before = breadth_cache]
    /\ pass1' = NoPass /\ pass2' = NoPass
    /\ UNCHANGED <<analyst_cache, hist, ext, token, now, today, pass_at>>
    /\ UNCHANGED <<files, pc, pending, reader, cache_dir>>
    /\ run' = observed(run, r.buckets)

Watchlist == [buckets |-> buckets, tickers |-> tickers]

\* a bucket operation: the mapping and the state file, not the breadth cache
BucketOp(op, r) ==
    /\ buckets' = r.buckets
    /\ state_file' = IF r.saved THEN Saved(r.buckets, tickers) ELSE state_file
    /\ last' = [Idle(op) EXCEPT !.status = IF r.err THEN "raised" ELSE "ok",
                                !.before = breadth_cache]
    /\ pass1' = NoPass /\ pass2' = NoPass
    /\ UNCHANGED <<tickers, breadth_cache, analyst_cache, hist, ext, token, now, today,
                   pass_at>>
    /\ UNCHANGED worker_vars

CreateBucket(name) ==
    BucketOp("create_bucket",
             [err |-> FALSE, buckets |-> create_bucket(buckets, Lower(name)),
              saved |-> Lower(name) \notin BucketNames(buckets)])

RenameBucket(old, new) ==
    BucketOp("rename_bucket", rename_bucket(buckets, Lower(old), Lower(new)))

DeleteBucket(name) == BucketOp("delete_bucket", delete_bucket(buckets, Lower(name)))

AddTicker(id, bucket) == Mutation("add_ticker", add_ticker(Watchlist, id, bucket))

RemoveTicker(symbol) == Mutation("remove_ticker", remove_ticker(Watchlist, symbol))

MoveTicker(symbol, bucket) == Mutation("move_ticker", move_ticker(Watchlist, symbol, bucket))

\* a faulty breadth call that drops the symbols without data from the
\* watchlist
RiskOnPruning ==
    \E ro \in {risk_on(breadth_cache, buckets, hist)} :
       /\ breadth_cache' = ro.cache
       /\ buckets' = [i \in 1..Len(buckets) |->
                        [buckets[i] EXCEPT !.syms = SelectSeq(@, LAMBDA s : hist[s] # None)]]
       /\ last' = [Idle("risk_on") EXCEPT !.ret = Some(ro.value), !.before = breadth_cache]
       /\ pass1' = NoPass /\ pass2' = NoPass
       /\ UNCHANGED <<tickers, state_file, analyst_cache, hist, ext, token,
                      now, today, pass_at>>
       /\ UNCHANGED worker_vars

RiskOn ==
    \E ro \in {risk_on(breadth_cache, buckets, hist)} :
       /\ breadth_cache' = ro.cache
       /\ last' = [Idle("risk_on") EXCEPT
                     !.status = IF ro.err THEN "raised" ELSE "ok",
                     !.ret = IF ro.err THEN None ELSE Some(ro.value),
                     !.before = breadth_cache,
                     !.scans = ro.scans, !.hist_calls = ro.calls]
       /\ pass1' = NoPass /\ pass2' = NoPass
       /\ UNCHANGED <<buckets, tickers, state_file, analyst_cache, hist, ext, token,
                      now, today, pass_at>>
       /\ UNCHANGED worker_vars

AnalystSnapshot(sym) ==
    \E off \in {-1, 0, 1} :
    \E r \in {analyst_snapshot(token, ext[sym], today, today + off)} :
       /\ last' = [Idle("analyst_snapshot") EXCEPT
                     !.status = IF r.err THEN "raised" ELSE "ok",
                     !.ret = r.out, !.sym = sym, !.off = off,
                     !.calls = {<<m, sym>> : m \in r.calls}]
       /\ UNCHANGED <<buckets, tickers, state_file, breadth_cache, analyst_cache,
                      hist, ext, token, now, today, pass_at, pass1, pass2>>
       /\ UNCHANGED worker_vars

\* datetime.utcnow().date() is date.today() or a neighbour of it; only an
\* enrichment pass reads it
UtcOffsets(include_analyst) == IF include_analyst THEN {-1, 0, 1} ELSE {0}

\* the surroundings of a pass
Surroundings(include_analyst, off) ==
    [include_analyst |-> include_analyst, buckets |-> buckets, hist |-> hist,
     ext |-> ext, token |-> token, now |-> now, today |-> today,
     utc_day |-> today + off]

SignalsPass(include_analyst) ==
    \E off \in UtcOffsets(include_analyst) :
    \E st \in {signals(breadth_cache, analyst_cache, Surroundings(include_analyst, off))} :
        /\ breadth_cache' = st.cache
        /\ analyst_cache' = st.acache
        /\ pass_at' = [s \in DOMAIN pass_at |->
                         IF s \in st.enriched THEN Some(now) ELSE pass_at[s]]
        /\ last' = [Idle("signals") EXCEPT
                      !.arg = include_analyst,
                      !.status = IF st.err THEN "raised" ELSE "ok",
                      !.ret = IF st.err THEN <<>> ELSE st.out,
                      !.before = breadth_cache,
                      !.scans = st.scans, !.risk = st.risk,
                      !.hist_calls = st.hist_calls, !.calls = st.calls,
                      !.off = off, !.at = now,
                      !.cached_at = [s \in DOMAIN st.acache |->
                                       IF st.acache[s] = None THEN None
                                       ELSE Some(st.acache[s][1]._ts)]]
        /\ pass1' = pass2 /\ pass2' = last'
        /\ UNCHANGED <<buckets, tickers, state_file, hist, ext, token, now, today>>

Signals(include_analyst) == SignalsPass(include_analyst) /\ UNCHANGED worker_vars

\* YahooPriceProvider.recent_ohlc against an endpoint whose first `fails`
\* requests raise and whose later requests return `df`: one request inside
\* one try; neither _throttle nor _retry is called
fetch_ohlc(fails, df) ==
    [value |-> IF fails >= 1 THEN None ELSE df, attempts |-> 1, sleeps |-> <<>>]

RecentOhlc(sym, fails) ==
    \E r \in {fetch_ohlc(fails, hist[sym])} :
       /\ last' = [Idle("recent_ohlc") EXCEPT !.ret = r.value, !.hist_calls = r.attempts,
                                             !.fails = fails, !.risk = r.sleeps,
                                             !.sym = sym]
       /\ UNCHANGED <<buckets, tickers, state_file, breadth_cache, analyst_cache,
                      hist, ext, token, now, today, pass_at, pass1, pass2>>
       /\ UNCHANGED worker_vars

(* The surroundings *)

\* half the analyst TTL, and a second more
TickSteps == {1800, 1801}

Tick(d) ==
    /\ now + d <= MaxNow
    /\ now' = now + d
    /\ last' = Idle("tick")
    /\ UNCHANGED <<buckets, tickers, state_file, breadth_cache, analyst_cache,
                   hist, ext, token, today, pass_at, pass1, pass2>>
    /\ UNCHANGED worker_vars

DayPasses ==
    /\ today < MaxDay
    /\ today' = today + 1
    /\ last' = Idle("day")
    /\ pass1' = NoPass /\ pass2' = NoPass
    /\ UNCHANGED <<buckets, tickers, state_file, breadth_cache, analyst_cache,
                   hist, ext, token, now, pass_at>>
    /\ UNCHANGED worker_vars

PriceChange(sym, h) ==
    /\ hist[sym] # h
    /\ hist' = [hist EXCEPT ![sym] = h]
    /\ last' = Idle("price")
    /\ pass1' = NoPass /\ pass2' = NoPass
    /\ UNCHANGED <<buckets, tickers, state_file, breadth_cache, analyst_cache,
                   ext, token, now, today, pass_at>>
    /\ UNCHANGED worker_vars

\* every external source goes down, for every symbol
Outage(kind) ==
    /\ hist' = [s \in AllSymbols |-> None]
    /\ ext' = [s \in AllSymbols |-> ExtOutage(kind)]
    /\ last' = Idle("outage")
    /\ pass1' = NoPass /\ pass2' = NoPass
    /\ UNCHANGED <<buckets, tickers, state_file, breadth_cache, analyst_cache,
                   token, now, today, pass_at>>
    /\ UNCHANGED worker_vars

ExtChange(sym, x) ==
    /\ ext[sym] # x
    /\ ext' = [ext EXCEPT ![sym] = x]
    /\ last' = Idle("ext")
    /\ pass1' = NoPass /\ pass2' = NoPass
    /\ UNCHANGED <<buckets, tickers, state_file, breadth_cache, analyst_cache,
                   hist, token, now, today, pass_at>>
    /\ UNCHANGED worker_vars

-----------------------------------------------------------------------------
(* The refresher: worker.py *)

CACHE_FILE == "signals.json"

\* a faulty refresher that writes the snapshot in place
in_place(path) == path

\* CACHE_FILE.with_suffix(".tmp")
with_suffix_tmp(path) == "signals.tmp"

Paths == {CACHE_FILE, with_suffix_tmp(CACHE_FILE)}

\* json.dumps(payload): the text of the document; its length counts the
\* as_of member, one member per record and the closing brace
dumps(p) == [doc |-> p, len |-> Len(p.signals) + 2]

\* a file is absent (None) or holds the first `size` pieces of a text
Content(text, size) == Some([text |-> text, size |-> size])

whole(content) == content # None /\ content[1].size = content[1].text.len

\* what a reader gets from reading and parsing a file: nothing (the file is
\* not there), an error (the text is cut short) or the document
read_json(content) ==
    IF content = None THEN [kind |-> "absent", doc |-> None]
    ELSE IF ~whole(content) THEN [kind |-> "partial", doc |-> None]
    ELSE [kind |-> "complete", doc |-> Some(content[1].text.doc)]

\* Path.replace: os.replace(src, dst), one atomic step
replace(fs, src, dst) ==
    IF src = dst THEN fs
    ELSE [p \in DOMAIN fs |-> IF p = dst THEN fs[src] ELSE IF p = src THEN None ELSE fs[p]]

\* YahooPriceProvider._cache_path(kind, key): CACHE_DIR / f"{kind}__{key}"
_cache_path(kind, key) == <<kind, key>>

\* the cache files there could be for the price targets
CachePaths == {_cache_path("target", s) : s \in AllSymbols}

NoPayload == [as_of |-> 0, signals |-> <<>>]

\* no pass of a request handler under way
NoRun == [state |-> "none", size |-> 0, k |-> 0, j |-> 0, out |-> <<>>, risk |-> <<>>,
          seen |-> {}]

InitWorker ==
    /\ files = [p \in Paths |-> None]
    /\ pc = "idle"
    /\ pending = NoPayload
    /\ reader = [kind |-> "unread", doc |-> None]
    /\ cache_dir = [p \in CachePaths |-> None]
    /\ run = NoRun

\* a faulty loop that an exception of refresh_once() ends
stop_loop == "stopped"

\* main, lines 26-27: an exception of refresh_once() is caught
on_exception == "except"

\* refresh_once, lines 14-16: the pass and the payload; an exception of the
\* pass ends refresh_once and is caught in main
RefreshCompute ==
    /\ pc = "idle"
    /\ SignalsPass(TRUE)
    /\ IF last'.status = "ok"
         THEN /\ pending' = [as_of |-> now, signals |-> last'.ret]
              /\ pc' = "open"
         ELSE /\ pending' = pending
              /\ pc' = on_exception
    /\ UNCHANGED <<files, reader, cache_dir, run>>

\* write_text opens the file for writing, which truncates it
WriteOpen ==
    /\ pc = "open"
    /\ files' = [files EXCEPT ![with_suffix_tmp(CACHE_FILE)] = Content(dumps(pending), 0)]
    /\ pc' = "write"
    /\ UNCHANGED <<buckets, tickers, state_file, breadth_cache, analyst_cache,
                   hist, ext, token, now, today, last, pass_at, pass1, pass2, pending, reader,
                   cache_dir, run>>

\* write_text writes the text piece by piece and closes the file
WriteChunk ==
    /\ pc = "write"
    /\ \E f \in {files[with_suffix_tmp(CACHE_FILE)][1]} :
         /\ files' = [files EXCEPT ![with_suffix_tmp(CACHE_FILE)] = Content(f.text, f.size + 1)]
         /\ pc' = IF f.size + 1 = f.text.len THEN "replace" ELSE "write"
    /\ UNCHANGED <<buckets, tickers, state_file, breadth_cache, analyst_cache,
                   hist, ext, token, now, today, last, pass_at, pass1, pass2, pending, reader,
                   cache_dir, run>>

\* tmp.replace(CACHE_FILE); refresh_once returns and main logs the refresh
Replace ==
    /\ pc = "replace"
    /\ files' = replace(files, with_suffix_tmp(CACHE_FILE), CACHE_FILE)
    /\ pc' = "sleep"
    /\ UNCHANGED <<buckets, tickers, state_file, breadth_cache, analyst_cache,
                   hist, ext, token, now, today, last, pass_at, pass1, pass2, pending, reader,
                   cache_dir, run>>

\* write_text or replace raises (no space left, no permission): the files
\* stay as they are at that moment and the exception is caught in main
StepFails ==
    /\ pc \in {"open", "write", "replace"}
    /\ pc' = on_exception
    /\ UNCHANGED <<buckets, tickers, state_file, breadth_cache, analyst_cache,
                   hist, ext, token, now, today, last, pass_at, pass1, pass2, files, pending,
                   reader, cache_dir, run>>

\* main, lines 26-27: logging.exception("Refresh failed: %s", e)
LogFailure ==
    /\ pc = "except"
    /\ pc' = "sleep"
    /\ UNCHANGED <<buckets, tickers, state_file, breadth_cache, analyst_cache,
                   hist, ext, token, now, today, last, pass_at, pass1, pass2, files, pending,
                   reader, cache_dir, run>>

\* main, line 28: time.sleep(REFRESH_SEC) returns and the loop turns (the
\* clock of this model is moved by Tick alone)
Sleep ==
    /\ pc = "sleep"
    /\ pc' = "idle"
    /\ UNCHANGED <<buckets, tickers, state_file, breadth_cache, analyst_cache,
                   hist, ext, token, now, today, last, pass_at, pass1, pass2, files, pending,
                   reader, cache_dir, run>>

\* a reader of the snapshot, at any moment
ReadSnapshot ==
    /\ reader' = read_json(files[CACHE_FILE])
    /\ reader' # reader
    /\ UNCHANGED <<buckets, tickers, state_file, breadth_cache, analyst_cache,
                   hist, ext, token, now, today, last, pass_at, pass1, pass2, files, pc, pending,
                   cache_dir, run>>

-----------------------------------------------------------------------------
(* Spec: the store with its watchlist mutations, breadth and indicator-only
   passes, under changing prices and a clock that jumps past every TTL *)

HistOf(a, b) ==
    [s \in AllSymbols |-> CASE s = "NVDA" -> a [] s = "ASML" -> b [] OTHER -> None]

Init ==
    /\ buckets = Constructed.buckets
    /\ tickers = Constructed.tickers
    /\ state_file = Saved(Constructed.buckets, Constructed.tickers)
    /\ breadth_cache = None
    /\ analyst_cache = [s \in AllSymbols |-> None]
    /\ \E a \in HistChoices("NVDA"), b \in HistChoices("ASML") : hist = HistOf(a, b)
    /\ ext = [s \in AllSymbols |-> NoExt]
    /\ token = FALSE
    /\ now = 0
    /\ today = 1
    /\ last = Idle("init")
    /\ pass_at = [s \in AllSymbols |-> None]
    /\ pass1 = NoPass /\ pass2 = NoPass
    /\ InitWorker

Next ==
    \/ \E id \in IdInputs, bucket \in {None} \cup {Some(k) : k \in BucketInputs} :
         AddTicker(id, bucket)
    \/ \E symbol \in SymbolInputs : RemoveTicker(symbol)
    \/ \E symbol \in SymbolInputs, bucket \in BucketInputs : MoveTicker(symbol, bucket)
    \/ RiskOn
    \/ Signals(FALSE)
    \/ Tick(MaxNow)
    \/ \E sym \in StoreSymbols : \E h \in HistChoices(sym) : PriceChange(sym, h)

Spec == Init /\ [][Next]_vars

-----------------------------------------------------------------------------
(* SpecBreadth: risk_on() over watchlists of up to five symbols with every
   mix of histories *)

InitBreadth ==
    \E n \in 0..Len(SymbolList) :
        LET w == bootstrap([buckets |-> [i \in 1..Len(DefaultBuckets) |->
                                           [name |-> DefaultBuckets[i], syms |-> <<>>]],
                            tickers |-> {}],
                           SubSeq(SymbolList, 1, n))
        IN /\ buckets = w.buckets
           /\ tickers = w.tickers
           /\ state_file = Saved(w.buckets, w.tickers)
           /\ breadth_cache = None
           /\ analyst_cache = [s \in AllSymbols |-> None]
           /\ hist \in [AllSymbols -> BreadthFrames]
           /\ \A i \in (n + 1)..Len(SymbolList) : hist[SymbolList[i]] = None
           /\ ext = [s \in AllSymbols |-> NoExt]
           /\ token = FALSE
           /\ now = 0
           /\ today = 1
           /\ last = Idle("init")
           /\ pass_at = [s \in AllSymbols |-> None]
           /\ pass1 = NoPass /\ pass2 = NoPass
           /\ InitWorker

NextBreadth == RiskOn

SpecBreadth == InitBreadth /\ [][NextBreadth]_vars

-----------------------------------------------------------------------------
(* SpecEnrich: enrichment passes over the bootstrapped watchlist while the
   clock runs, the day changes and the external sources change their answers *)

InitEnrich ==
    /\ buckets = Constructed.buckets
    /\ tickers = Constructed.tickers
    /\ state_file = Saved(Constructed.buckets, Constructed.tickers)
    /\ breadth_cache = None
    /\ analyst_cache = [s \in AllSymbols |-> None]
    /\ hist = HistOf(FrameShort, None)
    /\ ext = [s \in AllSymbols |-> NoExt]
    /\ token \in BOOLEAN
    /\ now = 0
    /\ today = 1
    /\ last = Idle("init")
    /\ pass_at = [s \in AllSymbols |-> None]
    /\ pass1 = NoPass /\ pass2 = NoPass
    /\ InitWorker

NextEnrich ==
    \/ Signals(TRUE)
    \/ \E d \in TickSteps : Tick(d)
    \/ DayPasses
    \/ \E x \in ExtInputs : ExtChange("NVDA", x)

SpecEnrich == InitEnrich /\ [][NextEnrich]_vars

-----------------------------------------------------------------------------
(* SpecProvider: calls of the price provider while the prices change and the
   endpoint fails some requests in a row *)

NextProvider ==
    \/ \E sym \in StoreSymbols, fails \in 0..MaxFails : RecentOhlc(sym, fails)
    \/ \E sym \in StoreSymbols : \E h \in HistChoices(sym) : PriceChange(sym, h)

SpecProvider == Init /\ [][NextProvider]_vars

-----------------------------------------------------------------------------
(* SpecBuckets: the bucket operations and the ticker mutations on the
   bootstrapped watchlist *)

BucketNameInputs == {"swing", "Growth", "avoid"}

InitBuckets ==
    /\ buckets = Constructed.buckets
    /\ tickers = Constructed.tickers
    /\ state_file = Saved(Constructed.buckets, Constructed.tickers)
    /\ breadth_cache = None
    /\ analyst_cache = [s \in AllSymbols |-> None]
    /\ hist = HistOf(FrameUp, FrameUp)
    /\ ext = [s \in AllSymbols |-> NoExt]
    /\ token = FALSE
    /\ now = 0
    /\ today = 1
    /\ last = Idle("init")
    /\ pass_at = [s \in AllSymbols |-> None]
    /\ pass1 = NoPass /\ pass2 = NoPass
    /\ InitWorker

NextBuckets ==
    \/ \E name \in BucketNameInputs : CreateBucket(name)
    \/ \E old, new \in BucketNameInputs : RenameBucket(old, new)
    \/ \E name \in BucketNameInputs : DeleteBucket(name)
    \/ \E id \in IdInputs, bucket \in {None} \cup {Some(k) : k \in BucketNameInputs} :
         AddTicker(id, bucket)
    \/ \E symbol \in SymbolInputs : RemoveTicker(symbol)
    \/ \E symbol \in SymbolInputs, bucket \in BucketNameInputs : MoveTicker(symbol, bucket)

SpecBuckets == InitBuckets /\ [][NextBuckets]_vars

-----------------------------------------------------------------------------
(* SpecOutage: passes and breadth calls before and after every external
   source goes down *)

NextOutage ==
    \/ Signals(TRUE)
    \/ Signals(FALSE)
    \/ RiskOn
    \/ \E kind \in {"raise", "none"} : Outage(kind)
    \/ \E d \in TickSteps : Tick(d)

SpecOutage == InitEnrich /\ [][NextOutage]_vars

-----------------------------------------------------------------------------
(* SpecCore: the read-only operations of the store (passes, breadth calls,
   analyst snapshots) on a watchlist that changes, with sources that answer,
   raise or are down *)

NextCore ==
    \/ Signals(TRUE)
    \/ RiskOn
    \/ \E sym \in StoreSymbols : AnalystSnapshot(sym)
    \/ \E bucket \in BucketInputs : MoveTicker("NVDA", bucket)
    \/ \E x \in {ExtRecoRaises, ExtConsensus, ExtCalendarPast, ExtMedianOnly} :
         ExtChange("NVDA", x)
    \/ Outage("none")

SpecCore == InitEnrich /\ [][NextCore]_vars

-----------------------------------------------------------------------------
(* SpecTwice: passes of signals() in a row, with and without enrichment,
   while the clock runs; in between, a price falls and the analysts answer *)

InitTwice ==
    /\ buckets = Constructed.buckets
    /\ tickers = Constructed.tickers
    /\ state_file = Saved(Constructed.buckets, Constructed.tickers)
    /\ breadth_cache = None
    /\ analyst_cache = [s \in AllSymbols |-> None]
    /\ hist = HistOf(FrameUp, FrameUp)
    /\ ext = [s \in AllSymbols |-> NoExt]
    /\ token = TRUE
    /\ now = 0
    /\ today = 1
    /\ last = Idle("init")
    /\ pass_at = [s \in AllSymbols |-> None]
    /\ pass1 = NoPass /\ pass2 = NoPass
    /\ InitWorker

NextTwice ==
    \/ Signals(TRUE)
    \/ Signals(FALSE)
    \/ \E d \in TickSteps : Tick(d)
    \/ PriceChange("ASML", FrameDown)
    \/ ExtChange("NVDA", ExtConsensus)

SpecTwice == InitTwice /\ [][NextTwice]_vars

-----------------------------------------------------------------------------
(* SpecWorker: one refresher writing the snapshot while a reader reads it,
   the clock runs and the analyst source changes its answers *)

NextWorker ==
    \/ RefreshCompute
    \/ WriteOpen
    \/ WriteChunk
    \/ Replace
    \/ LogFailure
    \/ Sleep
    \/ ReadSnapshot
    \/ Tick(MaxNow)
    \/ \E x \in {ExtRecoRaises, ExtConsensus} : ExtChange("NVDA", x)

SpecWorker == InitEnrich /\ [][NextWorker]_vars

-----------------------------------------------------------------------------
(* SpecReco: enrichment passes, with a token, while the recommendation
   source changes the counts it reports and the clock runs *)

NextReco ==
    \/ Signals(TRUE)
    \/ Tick(MaxNow)
    \/ \E c \in CountChoices : ExtChange("NVDA", ExtCounts(c))
    \/ ExtChange("ASML", ExtCounts(ZeroCounts))

SpecReco == InitEnrich /\ [][NextReco]_vars

-----------------------------------------------------------------------------
(* SpecIndicators: indicator-only passes over the bootstrapped watchlist on
   every pair of histories of IndicatorFrames *)

InitIndicators ==
    /\ buckets = Constructed.buckets
    /\ tickers = Constructed.tickers
    /\ state_file = Saved(Constructed.buckets, Constructed.tickers)
    /\ breadth_cache = None
    /\ analyst_cache = [s \in AllSymbols |-> None]
    /\ \E a \in IndicatorFrames, b \in IndicatorFrames : hist = HistOf(a, b)
    /\ ext = [s \in AllSymbols |-> NoExt]
    /\ token = FALSE
    /\ now = 0
    /\ today = 1
    /\ last = Idle("init")
    /\ pass_at = [s \in AllSymbols |-> None]
    /\ pass1 = NoPass /\ pass2 = NoPass
    /\ InitWorker

NextIndicators ==
    \/ Signals(FALSE)
    \/ \E h \in IndicatorFrames : PriceChange("NVDA", h)

SpecIndicators == InitIndicators /\ [][NextIndicators]_vars

-----------------------------------------------------------------------------
(* SpecWatchlist: every operation on the watchlist (bucket operations and
   ticker mutations) mixed with breadth calls and indicator-only passes, the
   prices held fixed *)

InitWatchlist ==
    /\ buckets = Constructed.buckets
    /\ tickers = Constructed.tickers
    /\ state_file = Saved(Constructed.buckets, Constructed.tickers)
    /\ breadth_cache = None
    /\ analyst_cache = [s \in AllSymbols |-> None]
    /\ \E a, b \in {FrameUp, FrameDown} : hist = HistOf(a, b)
    /\ ext = [s \in AllSymbols |-> NoExt]
    /\ token = FALSE
    /\ now = 0
    /\ today = 1
    /\ last = Idle("init")
    /\ pass_at = [s \in AllSymbols |-> None]
    /\ pass1 = NoPass /\ pass2 = NoPass
    /\ InitWorker

NextWatchlist ==
    \/ NextBuckets
    \/ RiskOn
    \/ Signals(FALSE)

SpecWatchlist == InitWatchlist /\ [][NextWatchlist]_vars

-----------------------------------------------------------------------------
(* SpecLoop: the refresher's loop with a token, while the recommendation
   source raises or answers and a write or the rename may fail. The
   refresher is a running process: each of its steps that can be taken is
   taken in the end; a failure need not happen. *)

InitLoop == InitEnrich /\ token

\* the steps of the loop after the assembly
LoopStep ==
    \/ WriteOpen
    \/ WriteChunk
    \/ Replace
    \/ LogFailure
    \/ Sleep

\* the call of refresh_once() is made and its assembly ends, with a payload
\* or with an exception: what a RefreshCompute step does to the loop
CallEnds == pc = "idle" /\ pc' \in {"open", on_exception}

NextLoop ==
    \/ RefreshCompute
    \/ LoopStep
    \/ StepFails
    \/ \E x \in {ExtRecoRaises, ExtConsensus} : ExtChange("NVDA", x)

SpecLoop == InitLoop /\ [][NextLoop]_vars /\ WF_pc(CallEnds) /\ WF_vars(LoopStep)

-----------------------------------------------------------------------------
(* Properties *)

MutOps == {"add_ticker", "remove_ticker", "move_ticker"}

ProviderMethods == {"recommendation", "price_target", "next_earnings"}

\* the records the last step returned, when it was a pass of signals()
Records == IF last.op = "signals" THEN last.ret ELSE <<>>

\* The breadth rule stated on the watchlist as a whole: the entries with at
\* least 200 bars, those of them whose last close is above the mean of their
\* last 200 closes (every close but the last is `base`), and the flag
Eligible(b, h) ==
    {i \in 1..Len(Entries(b)) :
        /\ h[Entries(b)[i].symbol] # None
        /\ h[Entries(b)[i].symbol][1].n >= MIN_BARS}

AboveAverage(b, h) ==
    {i \in Eligible(b, h) :
        LET df == h[Entries(b)[i].symbol][1]
        IN WIN200 * df.last > (WIN200 - 1) * df.base + df.last}

BreadthOf(b, h) ==
    /\ Cardinality(Eligible(b, h)) > 0
    /\ 100 * Cardinality(AboveAverage(b, h)) > BREADTH_PCT * Cardinality(Eligible(b, h))

\* C1 (as claimed): every pass of signals(include_analyst=True) returns
\* normally, whatever the external sources do; no failure of a source reaches
\* the caller.
C1_NoFailurePropagates ==
    last.op = "signals" /\ last.arg => last.status = "ok"

\* C2 (as claimed): every pass of signals() returns one record for every
\* watchlist entry, also when the computation for one symbol errors (a zero
\* close, a missing column).
C2_BatchSurvives ==
    last.op = "signals" =>
        /\ last.status = "ok"
        /\ Len(last.ret) = Len(Entries(buckets))

\* C3 (as claimed): in every record with data, an SMA that is None (fewer than
\* 50, resp. 200 bars) comes with above50, resp. above200, false.
C3_ShortSeriesNotAbove ==
    \A i \in 1..Len(Records) :
        Records[i].close # None =>
            /\ Records[i].sma50 = None => ~Records[i].above50
            /\ Records[i].sma200 = None => ~Records[i].above200

\* C4: in every record a pass returns, entry_ok is true exactly when above50,
\* above200 and the breadth flag are all true; a no-data record has entry_ok
\* false.
C4_EntryOk ==
    \A i \in 1..Len(Records) :
        /\ Records[i].entry_ok <=>
               (Records[i].above50 /\ Records[i].above200 /\ breadth_cache = Some(TRUE))
        /\ Records[i].close = None => ~Records[i].entry_ok

\* a pass gave entry_ok to one symbol and a no-data record to another
C4_Witness ==
    \E i, j \in 1..Len(Records) : Records[i].entry_ok /\ Records[j].close = None

\* C5: within one pass the breadth scan runs at most once, every risk_on()
\* call of the pass returns the same value, and every record above both SMAs
\* has its entry_ok equal to that value.
C5_BreadthOncePerPass ==
    last.op = "signals" =>
        /\ last.scans <= 1
        /\ \A i, j \in 1..Len(last.risk) : last.risk[i] = last.risk[j]
        /\ \A i \in 1..Len(Records) :
               Records[i].above50 /\ Records[i].above200 =>
                   /\ last.risk # <<>>
                   /\ Records[i].entry_ok = last.risk[1]

\* a pass that started without a cached flag, scanned once and asked twice
C5_Witness ==
    /\ last.op = "signals"
    /\ last.status = "ok"
    /\ last.before = None
    /\ last.scans = 1
    /\ Len(last.risk) >= 2

\* C6: an add_ticker, remove_ticker or move_ticker that changes the watchlist
\* leaves the breadth cache None, and a risk_on() call made while the cache is
\* None scans and returns the flag of the watchlist as it is then.
C6_MutationInvalidates ==
    [][/\ last'.op \in MutOps /\ buckets' # buckets => breadth_cache' = None
       /\ last'.op = "risk_on" /\ last'.status = "ok" /\ breadth_cache = None =>
              /\ last'.scans = 1
              /\ last'.ret = Some(BreadthOf(buckets', hist'))]_vars

\* a mutation that found a cached flag, changed the watchlist and left the
\* cache None
C6_Witness ==
    /\ last.op \in MutOps
    /\ last.status = "ok"
    /\ last.before # None
    /\ breadth_cache = None
    /\ state_file # Saved(Constructed.buckets, Constructed.tickers)

\* C7: a known breadth cache is changed by nothing but add_ticker,
\* remove_ticker and move_ticker (not by time passing, not by prices
\* changing), and a risk_on() call that finds it returns it without a call
\* to the price source.
C7_CacheHolds ==
    [][breadth_cache # None =>
           /\ last'.op \notin MutOps => breadth_cache' = breadth_cache
           /\ last'.op = "risk_on" =>
                  /\ last'.ret = breadth_cache
                  /\ last'.hist_calls = 0]_vars

\* risk_on() returned the cached flag after the clock had advanced and the
\* prices had changed so much that a scan would give the opposite flag
C7_Witness ==
    /\ last.op = "risk_on"
    /\ last.before # None
    /\ now > 0
    /\ last.ret = last.before
    /\ last.ret # Some(BreadthOf(buckets, hist))

\* C8: a risk_on() call that finds no cached flag returns true exactly when
\* some watchlisted symbol has at least 200 bars and, of the symbols that
\* have, more than 60% close above their 200-bar average.
C8_BreadthRule ==
    last.op = "risk_on" /\ last.before = None =>
        /\ last.status = "ok"
        /\ last.ret = Some(BreadthOf(buckets, hist))

\* exactly 60%: five eligible symbols, three of them above, give false
C8_Witness ==
    /\ last.op = "risk_on"
    /\ last.before = None
    /\ Cardinality(Eligible(buckets, hist)) = 5
    /\ Cardinality(AboveAverage(buckets, hist)) = 3
    /\ last.ret = Some(FALSE)

\* C9 (as claimed): an enrichment pass made less than 60 minutes after the
\* previous enrichment of a symbol makes no call of recommendation,
\* price_target or next_earnings for it.
C9_NoCallWithinTtl ==
    [][\A s \in StoreSymbols :
           /\ last'.op = "signals"
           /\ last'.arg
           /\ pass_at[s] # None
           /\ now - pass_at[s][1] < ANALYST_TTL
           => \A m \in ProviderMethods : <<m, s>> \notin last'.calls]_vars

\* C10: in every record of an enrichment pass, next_earnings is None or a
\* date on or after the day of the pass.
C10_NoStaleEarnings ==
    last.op = "signals" /\ last.arg =>
        \A i \in 1..Len(last.ret) :
            \/ last.ret[i].next_earnings = None
            \/ last.ret[i].next_earnings[1] >= today

\* a pass returned next_earnings None for a symbol whose only earnings date,
\* from the earnings-dates history or from the calendar's estimate, is gone by
C10_Witness ==
    /\ last.op = "signals"
    /\ last.arg
    /\ last.status = "ok"
    /\ ext["NVDA"] \in {ExtHistoryOnly, ExtEstimateOnly}
    /\ \E i \in 1..Len(last.ret) :
           last.ret[i].symbol = "NVDA" /\ last.ret[i].next_earnings = None

\* C11: a reader of signals.json never gets a text that is cut short; the
\* snapshot file changes only in the one step of the rename, and then to the
\* whole text of the payload that refresh_once() was writing.
C11_AtomicSnapshot ==
    [][/\ reader'.kind # "partial"
       /\ files'[CACHE_FILE] = None \/ whole(files'[CACHE_FILE])
       /\ files'[CACHE_FILE] # files[CACHE_FILE] =>
              /\ pc = "replace"
              /\ files'[CACHE_FILE] = Content(dumps(pending), dumps(pending).len)]_vars

\* the reader holds the whole previous payload while the refresher is half
\* way through writing a different one
C11_Witness ==
    /\ pc = "write"
    /\ files[with_suffix_tmp(CACHE_FILE)] # None
    /\ files[with_suffix_tmp(CACHE_FILE)][1].size > 0
    /\ whole(files[CACHE_FILE])
    /\ reader = read_json(files[CACHE_FILE])
    /\ files[CACHE_FILE][1].text.doc # pending

\* C12 (as claimed): a call of recent_ohlc whose first requests fail, fewer
\* of them than the fixed number of attempts, makes a further request after
\* each failure, waits before each of them, and returns the data; it never
\* makes more requests than the fixed number and then returns None.
C12_TransientRetried ==
    last.op = "recent_ohlc" =>
        /\ last.hist_calls <= RETRY_ATTEMPTS
        /\ last.fails < RETRY_ATTEMPTS =>
               /\ last.hist_calls = last.fails + 1
               /\ Len(last.risk) = last.fails
               /\ last.ret = hist[last.sym]
        /\ last.fails >= RETRY_ATTEMPTS => last.ret = None

\* C13: after any sequence of create_bucket, rename_bucket, delete_bucket,
\* add_ticker, remove_ticker and move_ticker on a watchlist without
\* duplicates, no symbol occurs twice over all the bucket lists.
C13_OneBucketPerSymbol ==
    \A i, j \in 1..Len(Entries(buckets)) :
        i # j => Entries(buckets)[i].symbol # Entries(buckets)[j].symbol

\* after a delete_bucket the "avoid" list holds every symbol of the
\* watchlist, two of them or more
C13_Witness ==
    /\ last.op = "delete_bucket"
    /\ Len(ListOf(buckets, "avoid")) >= 2
    /\ Len(Entries(buckets)) = Len(ListOf(buckets, "avoid"))

EnrichmentFields ==
    {"avg_target", "buy_pct", "hold_pct", "sell_pct", "analyst_total", "next_earnings",
     "revenue_growth_pct", "profit_margin_pct", "market_cap", "revenue"}

\* C14 (as claimed): a pass of signals(include_analyst=False) calls no
\* enrichment source and its records carry no field of the enrichment
\* snapshot.
C14_IndicatorOnly ==
    last.op = "signals" /\ ~last.arg =>
        /\ last.calls = {}
        /\ \A i \in 1..Len(last.ret) : (DOMAIN last.ret[i]) \cap EnrichmentFields = {}

\* two passes in a row with the same flag and the same dates
InARow ==
    /\ pass1.op = "signals"
    /\ pass2.op = "signals"
    /\ pass1.arg = pass2.arg
    /\ pass1.off = pass2.off

NoExpiryBetween ==
    \A s \in AllSymbols :
        pass1.cached_at[s] # None /\ pass1.at - pass1.cached_at[s][1] <= ANALYST_TTL
            => pass2.at - pass1.cached_at[s][1] <= ANALYST_TTL

C16_RsiInRange ==
    \A i \in 1..Len(Records) :
        /\ Records[i].rsi14 # None =>
               /\ ~Records[i].rsi14[1].nan
               /\ Records[i].rsi14[1].v >= 0
               /\ Records[i].rsi14[1].v <= 10000
        /\ Records[i].rsi14 = None \/ Records[i].rsi14[1].nan => Records[i].rsi_zone = None

TotalOutage ==
    \A s \in AllSymbols :
        /\ hist[s] = None
        /\ ext[s].reco.kind \in {"raise", "none"}
        /\ ext[s].info.kind = "fail"
        /\ ext[s].fh.fail /\ ext[s].ycal.fail /\ ext[s].yed.fail

\* C17 (as claimed): while every external source is down, a pass of
\* signals() returns normally one no-data record per watchlist entry, and
\* risk_on() returns false.
C17_OutageDegrades ==
    TotalOutage =>
        /\ last.op = "signals" =>
               /\ last.status = "ok"
               /\ Len(last.ret) = Len(Entries(buckets))
               /\ \A i \in 1..Len(last.ret) :
                      /\ last.ret[i].close = None
                      /\ last.ret[i].sma50 = None
                      /\ last.ret[i].sma200 = None
                      /\ ~last.ret[i].above50
                      /\ ~last.ret[i].above200
                      /\ ~last.ret[i].entry_ok
        /\ last.op = "risk_on" => last.status = "ok" /\ last.ret = Some(FALSE)

CoreOps == {"signals", "risk_on", "analyst_snapshot"}

\* C18: a call of signals() (and with it _analyst_maybe and _fundamentals),
\* of risk_on() or of analyst_snapshot() leaves the bucket mapping and the
\* ticker table as they are, however the call ends.
C18_CoreReadsOnly ==
    [][last'.op \in CoreOps => buckets' = buckets /\ tickers' = tickers]_vars

\* an enrichment pass that a source made raise, on a watchlist that a
\* mutation had changed and saved
C18_Witness ==
    /\ last.op = "signals"
    /\ last.status = "raised"
    /\ buckets # Constructed.buckets
    /\ state_file = Saved(buckets, tickers)

\* the candidate dates of all the earnings sources of a symbol together
AllCandidates(x, tok) ==
    (IF tok /\ ~x.fh.fail THEN x.fh.days ELSE {})
    \cup (IF x.ycal.fail THEN {} ELSE x.ycal.days \cup x.ycal.est)
    \cup (IF x.yed.fail THEN {} ELSE x.yed.days)

\* C20 (as claimed): the next-earnings date resolved for a symbol is the
\* earliest of all the sources' candidates on or after today, if there is
\* one, and else the latest of them.
C20_EarningsFromUnion ==
    last.op = "analyst_snapshot" /\ last.status = "ok" /\ last.off = 0 =>
        last.ret[1].next_earnings =
            first_future_or_latest(AllCandidates(ext[last.sym], token), today)

\* C19 (as claimed): after an enrichment pass that asked the primary source
\* for the target of a symbol and got no avg_target, while a median target
\* is to be had, the record has a target and the long-lived cache has an
\* entry for the symbol.
C19_TargetFallbackCached ==
    last.op = "signals" /\ last.arg /\ last.status = "ok" =>
        \A i \in 1..Len(last.ret) :
            LET sym == last.ret[i].symbol
                pt == price_target(ext[sym])
            IN /\ <<"price_target", sym>> \in last.calls
               /\ pt # None
               /\ pt[1].avg_target = None
               /\ pt[1].median # None
               => /\ last.ret[i].avg_target # None
                  /\ cache_dir[_cache_path("target", sym)] # None

\* the record of sym was resolved in the last pass from a recommendation
\* that has counts and no percentage breakdown
CountsOnly(sym) ==
    /\ <<"recommendation", sym>> \in last.calls
    /\ recommendation(token, ext[sym]).rec # None
    /\ recommendation(token, ext[sym]).rec[1].percent = None

\* C21: when the recommendation has rating counts but no percentage
\* breakdown, _analyst_maybe takes as total the sum of the five counts if the
\* provider gave none; with a total that is not 0 it derives
\* buy_pct = 100*(strongBuy+buy)/total, hold_pct = 100*hold/total and
\* sell_pct = 100*(sell+strongSell)/total, which with a derived total sum to
\* 100 before rounding; with a summed total of 0 the three percentages are
\* None and nothing is divided by zero.
C21_DerivedPercentages ==
    last.op = "signals" /\ last.arg =>
    \A i \in 1..Len(Records) :
        LET d == Records[i]
            rec == recommendation(token, ext[d.symbol]).rec[1]
            c == rec.counts
            total == c.strongBuy + c.buy + c.hold + c.sell + c.strongSell
            buy == Frac(100 * (c.strongBuy + c.buy), total)
            hold == Frac(100 * c.hold, total)
            sell == Frac(100 * (c.sell + c.strongSell), total)
        IN CountsOnly(d.symbol) =>
             /\ rec.total = None => d.analyst_total = Some(total)
             /\ total # 0 =>
                  /\ d.buy_pct = r2(Some(buy))
                  /\ d.hold_pct = r2(Some(hold))
                  /\ d.sell_pct = r2(Some(sell))
                  /\ buy.den # 0
                  /\ rec.total = None => buy.num + hold.num + sell.num = 100 * buy.den
             /\ total = 0 => d.buy_pct = None /\ d.hold_pct = None /\ d.sell_pct = None

\* a pass derived the percentages of a symbol from counts with a strong
\* rating among them, and left those of another symbol, whose counts sum to
\* 0, at None
C21_Witness ==
    /\ last.op = "signals" /\ last.arg /\ last.status = "ok"
    /\ \E i, j \in 1..Len(Records) :
         /\ CountsOnly(Records[i].symbol)
         /\ ext[Records[i].symbol].reco.counts.strongSell # 0
         /\ Records[i].sell_pct # None
         /\ CountsOnly(Records[j].symbol)
         /\ Records[j].analyst_total = Some(0)
         /\ Records[j].buy_pct = None

\* the sum of the last VOL_WINDOW volumes of a frame of at least as many bars
LastVolumes(df) == (VOL_WINDOW - 1) * df.vol + df.vlast

\* C22 (as claimed): vol_avg20_ratio is None whenever the 20-bar volume
\* average is unavailable (under 20 bars) or zero, and else the last volume
\* divided by the mean of the last 20 volumes, rounded to 2 decimals; a NaN
\* ratio is never put in a record.
C22_VolumeRatio ==
    \A i \in 1..Len(Records) :
        LET d == Records[i]
            df == hist[d.symbol]
        IN /\ d.vol_avg20_ratio # Some(NaN)
           /\ IF df = None \/ df[1].n < VOL_WINDOW \/ LastVolumes(df[1]) = 0
              THEN d.vol_avg20_ratio = None
              ELSE d.vol_avg20_ratio =
                     Some(Num(Round2([num |-> VOL_WINDOW * df[1].vlast,
                                      den |-> LastVolumes(df[1])])))

\* the mean of the last WIN50 closes of a frame of at least as many bars, as
\* the sum over WIN50
Sum50(df) == (WIN50 - 2) * df.base + df.prev + df.last

\* C23: for a series of at least 2 bars with an sma50, reentry is true iff
\* the second-to-last close is strictly below sma50 and the last close
\* strictly above it; reentry is None iff sma50 is unavailable or the series
\* has fewer than 2 bars.
C23_Reentry ==
    \A i \in 1..Len(Records) :
        LET d == Records[i]
            df == hist[d.symbol]
        IN IF df = None \/ df[1].n < 2 \/ df[1].n < WIN50
           THEN d.reentry = None
           ELSE /\ d.reentry # None
                /\ d.reentry[1] <=> /\ WIN50 * df[1].prev < Sum50(df[1])
                                    /\ WIN50 * df[1].last > Sum50(df[1])

\* one pass returned a record that crossed above its sma50 and a record that
\* crossed below it
C23_Witness ==
    \E i, j \in 1..Len(Records) :
        /\ Records[i].reentry = Some(TRUE)
        /\ Records[j].reentry = Some(FALSE)
        /\ WIN50 * hist[Records[j].symbol][1].prev > Sum50(hist[Records[j].symbol][1])
        /\ WIN50 * hist[Records[j].symbol][1].last < Sum50(hist[Records[j].symbol][1])

\* the number of entries of the buckets before bucket k
Offset(b, k) == SeqSum([m \in 1..(k - 1) |-> Len(b[m].syms)])

\* C24: a pass of signals() that returns gives exactly one record per
\* (symbol, bucket) entry of the watchlist, bucket after bucket in the order
\* of the mapping and within a bucket in the order of its list; each
\* record's symbol and bucket are those of its entry.
C24_OneRecordPerEntry ==
    last.op = "signals" /\ last.status = "ok" =>
        /\ Len(last.ret) = Offset(buckets, Len(buckets) + 1)
        /\ \A k \in 1..Len(buckets) : \A j \in 1..Len(buckets[k].syms) :
               /\ last.ret[Offset(buckets, k) + j].symbol = buckets[k].syms[j]
               /\ last.ret[Offset(buckets, k) + j].bucket = buckets[k].name

\* a pass over a watchlist whose first bucket is empty and whose symbols are
\* in two buckets, the second of them added after construction
C24_Witness ==
    /\ last.op = "signals" /\ last.status = "ok"
    /\ Len(last.ret) = 2
    /\ last.ret[1].bucket # last.ret[2].bucket
    /\ last.ret[2].bucket = "growth"
    /\ buckets[1].syms = <<>>

\* an identifier resolve_security cannot resolve: empty, or 12 alphanumeric
\* characters that are no key of the ISIN map
Unresolvable(id) ==
    \/ id = ""
    \/ IsinShaped(Upper(id)) /\ Upper(id) \notin DOMAIN ISIN_TO_SYMBOL

\* C25: add_ticker with an identifier that cannot be resolved is rejected
\* with an error and leaves the ticker table, every bucket list and the
\* breadth cache as they were before the call.
C25_UnresolvedRejected ==
    [][\A id \in IdInputs, bucket \in {None} \cup {Some(k) : k \in BucketNameInputs} :
          Unresolvable(id) /\ AddTicker(id, bucket) =>
              /\ last'.status = "raised"
              /\ tickers' = tickers
              /\ buckets' = buckets
              /\ breadth_cache' = breadth_cache]_vars

\* a rejected add_ticker on a store that holds a known breadth flag
C25_Witness ==
    /\ last.op = "add_ticker"
    /\ last.status = "raised"
    /\ last.before # None
    /\ breadth_cache = last.before

\* C26: with the prices held fixed, whenever the breadth cache holds a known
\* value after any sequence of bucket operations, ticker mutations, risk_on()
\* calls and passes, that value is the breadth flag of the watchlist as it is.
C26_CacheAgreesWithWatchlist ==
    breadth_cache # None => breadth_cache[1] = BreadthOf(buckets, hist)

\* a known flag of TRUE kept through a delete_bucket that moved symbols to
\* "avoid"
C26_Witness ==
    /\ last.op = "delete_bucket"
    /\ last.before = Some(TRUE)
    /\ breadth_cache = Some(TRUE)
    /\ "swing" \notin BucketNames(buckets)
    /\ ListOf(buckets, "avoid") # <<>>

\* the symbols found in the bucket lists, and how often a symbol is found
Listed(b) == {Entries(b)[i].symbol : i \in 1..Len(Entries(b))}
TimesListed(b, sym) == Cardinality({i \in 1..Len(Entries(b)) : Entries(b)[i].symbol = sym})

\* C28: from the bootstrapped store on, after any sequence of bucket
\* operations and ticker mutations, the symbols in the bucket lists are the
\* keys of the ticker table, and every ticker is in exactly one bucket.
C28_ListsMatchTickers ==
    /\ Listed(buckets) = tickers
    /\ \A sym \in tickers : TimesListed(buckets, sym) = 1

\* a ticker was removed after its bucket had been renamed, and another
\* ticker is left
C28_Witness ==
    /\ last.op = "remove_ticker"
    /\ "growth" \in BucketNames(buckets)
    /\ "swing" \notin BucketNames(buckets)
    /\ Cardinality(tickers) = 1

\* C29: delete_bucket on an existing bucket removes no symbol from the
\* watchlist: the symbols of the deleted bucket are afterwards in "avoid",
\* after its previous members and in their order; "avoid" exists afterwards
\* also when it was the bucket deleted; every other bucket is as it was.
\* delete_bucket on a bucket that does not exist changes nothing.
C29_DeleteMovesToAvoid ==
    [][\A name \in BucketNameInputs :
          DeleteBucket(name) =>
              IF Lower(name) \notin BucketNames(buckets)
              THEN UNCHANGED <<buckets, tickers, state_file, breadth_cache>>
              ELSE /\ "avoid" \in BucketNames(buckets')
                   /\ ListOf(buckets', "avoid") =
                        (IF Lower(name) = "avoid" THEN <<>> ELSE ListOf(buckets, "avoid"))
                        \o ListOf(buckets, Lower(name))
                   /\ BucketNames(buckets') =
                        (BucketNames(buckets) \ {Lower(name)}) \cup {"avoid"}
                   /\ \A k \in BucketNames(buckets) \ {Lower(name), "avoid"} :
                        ListOf(buckets', k) = ListOf(buckets, k)
                   /\ Len(buckets') = Cardinality(BucketNames(buckets'))
                   /\ tickers' = tickers]_vars

\* "swing" was deleted and its symbol stands in "avoid" after the symbol
\* that was there before
C29_Witness ==
    /\ last.op = "delete_bucket"
    /\ "swing" \notin BucketNames(buckets)
    /\ ListOf(buckets, "avoid") = <<"ASML", "NVDA">>

\* C30: a refresh_once() that fails at any step (the assembly raises, the
\* write of the temporary file or the rename fails) leaves the published
\* snapshot as it was and complete: signals.json changes only in the step
\* that ends a refresh with success. After a failure the loop comes back to
\* the call of refresh_once(), and it does so again and again.
C30_FailedRefreshGoesOn ==
    /\ [][files'[CACHE_FILE] # files[CACHE_FILE] => pc = "replace" /\ pc' = "sleep"]_vars
    /\ [](pc = "except" => files[CACHE_FILE] = None \/ whole(files[CACHE_FILE]))
    /\ (pc = "except" ~> pc = "idle")
    /\ []<>(pc = "idle")

\* a write failed half way while the snapshot of an earlier refresh, with
\* another payload, is published
C30_Witness ==
    /\ pc = "except"
    /\ whole(files[CACHE_FILE])
    /\ files[with_suffix_tmp(CACHE_FILE)] # None
    /\ ~whole(files[with_suffix_tmp(CACHE_FILE)])
    /\ files[with_suffix_tmp(CACHE_FILE)][1].size > 0
    /\ files[CACHE_FILE][1].text.doc # pending

-----------------------------------------------------------------------------
(* SpecInterleave: a pass of signals() taken entry by entry, as a request
   handler's thread runs it, while the threads of the add, delete and move
   routes mutate the watchlist of the same store. The routes are plain
   functions, which the server runs in worker threads; the store has no
   lock. *)

\* the entry the iterators of the pass stand before, if there is one
AtEntry(r, b) == r.k >= 1 /\ r.k <= Len(b) /\ r.j < Len(b[r.k].syms)

\* out = [] and the iterator of self._buckets.items() is made: it remembers
\* the size of the mapping
BeginSignals ==
    /\ run.state # "running"
    /\ run' = [NoRun EXCEPT !.state = "running", !.size = Len(buckets),
                            !.seen = {buckets}]
    /\ UNCHANGED <<buckets, tickers, state_file, breadth_cache, analyst_cache, hist, ext,
                   token, now, today, last, pass_at, pass1, pass2>>
    /\ UNCHANGED <<files, pc, pending, reader, cache_dir>>

\* one turn of the inner loop on the entry the list iterator stands before
\* (its index against the list as it is now), the breadth flag read from and
\* written to the store's cache as it is now
SignalsTurn ==
    /\ run.state = "running"
    /\ AtEntry(run, buckets)
    /\ \E st \in {signals_entry([PassStart(breadth_cache, analyst_cache) EXCEPT
                                   !.out = run.out, !.risk = run.risk],
                                [bucket |-> buckets[run.k].name,
                                 symbol |-> buckets[run.k].syms[run.j + 1]],
                                Surroundings(FALSE, 0))} :
         /\ breadth_cache' = st.cache
         /\ run' = [run EXCEPT !.state = IF st.err THEN "raised" ELSE "running",
                               !.j = @ + 1, !.out = st.out, !.risk = st.risk]
    /\ UNCHANGED <<buckets, tickers, state_file, analyst_cache, hist, ext,
                   token, now, today, last, pass_at, pass1, pass2>>
    /\ UNCHANGED <<files, pc, pending, reader, cache_dir>>

\* the list is exhausted and the iterator of the mapping is asked for the
\* next bucket: RuntimeError if the mapping changed size, return out after
\* the last bucket
SignalsNextBucket ==
    /\ run.state = "running"
    /\ ~AtEntry(run, buckets)
    /\ run' = IF run.size # Len(buckets) THEN [run EXCEPT !.state = "raised"]
              ELSE IF run.k + 1 > Len(buckets) THEN [run EXCEPT !.state = "returned"]
              ELSE [run EXCEPT !.k = @ + 1, !.j = 0]
    /\ UNCHANGED <<buckets, tickers, state_file, breadth_cache, analyst_cache, hist, ext,
                   token, now, today, last, pass_at, pass1, pass2>>
    /\ UNCHANGED <<files, pc, pending, reader, cache_dir>>

StepSignals == SignalsTurn \/ SignalsNextBucket

\* three symbols in "swing", two of them above their 200-bar average: the
\* breadth is 2 of 3
InterleaveStart ==
    bootstrap([buckets |-> [i \in 1..Len(DefaultBuckets) |->
                              [name |-> DefaultBuckets[i], syms |-> <<>>]],
               tickers |-> {}],
              SubSeq(SymbolList, 1, 3))

InitInterleave ==
    /\ buckets = InterleaveStart.buckets
    /\ tickers = InterleaveStart.tickers
    /\ state_file = Saved(InterleaveStart.buckets, InterleaveStart.tickers)
    /\ breadth_cache = None
    /\ analyst_cache = [s \in AllSymbols |-> None]
    /\ hist = [s \in AllSymbols |-> IF s \in {"NVDA", "ASML"} THEN FrameUp ELSE FrameDown]
    /\ ext = [s \in AllSymbols |-> NoExt]
    /\ token = FALSE
    /\ now = 0
    /\ today = 1
    /\ last = Idle("init")
    /\ pass_at = [s \in AllSymbols |-> None]
    /\ pass1 = NoPass /\ pass2 = NoPass
    /\ InitWorker

\* a mutation of another handler, between two steps of the running pass
Interleaved ==
    /\ run.state = "running"
    /\ Cardinality(run.seen) <= MaxInterleaved
    /\ \/ \E id \in {"DIS", "NVDA"} : AddTicker(id, None)
       \/ \E symbol \in {"NVDA", "DIS"} : RemoveTicker(symbol)
       \/ \E symbol \in {"ASML", "LLY"}, bucket \in {"avoid", "Growth"} :
            MoveTicker(symbol, bucket)

NextInterleave ==
    \/ BeginSignals
    \/ SignalsTurn
    \/ SignalsNextBucket
    \/ Interleaved

SpecInterleave == InitInterleave /\ [][NextInterleave]_vars

\* the (bucket, symbol) pairs of the records a pass emitted, in order
Emitted(out) == [i \in 1..Len(out) |-> [bucket |-> out[i].bucket, symbol |-> out[i].symbol]]

\* C27: when add_ticker, remove_ticker or move_ticker of another request
\* handler interleaves with a running pass of signals(), the pass that
\* returns has taken one same risk_on value for all its records, the entry_ok
\* of every record above both averages is that value, and its records are
\* the entries of one of the watchlists there were during the pass.
C27_PassSeesOneWatchlist ==
    run.state = "returned" =>
        /\ \A i, j \in 1..Len(run.risk) : run.risk[i] = run.risk[j]
        /\ \A i \in 1..Len(run.out) :
             run.out[i].above50 /\ run.out[i].above200
                => run.risk # <<>> /\ run.out[i].entry_ok = run.risk[1]
        /\ \E b \in run.seen : Emitted(run.out) = Entries(b)

====
